---------------------------- MODULE Spec2Model ----------------------------
(***************************************************************************)
(* TOON decoder (loads), encoder (dumps) and response extractor            *)
(* (parse_response) of backend/src/utils/toon.py.                          *)
(*                                                                         *)
(* A Python str is a sequence of one-character strings.  A Python value is *)
(* a tagged record [t |-> kind, v |-> payload]:                            *)
(*   "str"   v = the characters          "int"  v = the integer            *)
(*   "bool"  v = TRUE / FALSE            "none" v = << >>                  *)
(*   "float" v = <<m, e>>, the decimal m / 10^e with no trailing zero      *)
(*   "dict"  v = the items <<key, value>> in insertion order               *)
(*   "list"  v = the elements in order                                     *)
(* While loads runs, the containers it reaches through the stack live in a *)
(* heap (a sequence of objects, an object's identity is its index) and a   *)
(* value [t |-> "ref", v |-> id] points at one of them, so that Python's   *)
(* v is container is the comparison of two ids.                          *)
(***************************************************************************)
EXTENDS Integers, Sequences, FiniteSets, TLC

VARIABLES
    text,     \* the argument of loads / parse_response
    lines,    \* loads: text.strip().split('\n')
    pos,      \* loads: index of the next line of the for loop
    dec,      \* loads: the local variables (stack, result heap, table mode)
    pc,       \* position of the running call
    ret,      \* the value returned (a Python value), once pc = "done"
    data,     \* dumps: the mapping being serialised
    pr,       \* parse_response: strategies tried so far, escaped exception
    calls,    \* concurrent loads: the invocations and the locals of each
    tracker   \* TokenTracker: the counters, the lock and the threads using them

vars == <<text, lines, pos, dec, pc, ret, data, pr, calls, tracker>>

----------------------------------------------------------------------------
(* str methods *)

Whitespace == {" ", "\n", "\t"}

Digits == <<"0", "1", "2", "3", "4", "5", "6", "7", "8", "9">>

UpperCase == <<"A", "B", "C", "D", "E", "F", "G", "H", "I", "J", "K", "L", "M",
               "N", "O", "P", "Q", "R", "S", "T", "U", "V", "W", "X", "Y", "Z">>

LowerCase == <<"a", "b", "c", "d", "e", "f", "g", "h", "i", "j", "k", "l", "m",
               "n", "o", "p", "q", "r", "s", "t", "u", "v", "w", "x", "y", "z">>

\* index of c in the sequence s, 0 when absent
IndexOf(s, c) ==
    IF \E i \in 1..Len(s) : s[i] = c
    THEN CHOOSE i \in 1..Len(s) : s[i] = c /\ \A j \in 1..(i - 1) : s[j] # c
    ELSE 0

Contains(s, c) == \E i \in 1..Len(s) : s[i] = c

Drop(s, n) == SubSeq(s, n + 1, Len(s))

Take(s, n) == SubSeq(s, 1, n)

StartsWith(s, p) == Len(s) >= Len(p) /\ Take(s, Len(p)) = p

\* number of leading whitespace characters
LeadingSpace(s) ==
    IF \E i \in 1..Len(s) : s[i] \notin Whitespace
    THEN (CHOOSE i \in 1..Len(s) :
              s[i] \notin Whitespace /\ \A j \in 1..(i - 1) : s[j] \in Whitespace) - 1
    ELSE Len(s)

\* number of trailing whitespace characters
TrailingSpace(s) ==
    IF \E i \in 1..Len(s) : s[i] \notin Whitespace
    THEN Len(s) - (CHOOSE i \in 1..Len(s) :
              s[i] \notin Whitespace /\ \A j \in (i + 1)..Len(s) : s[j] \in Whitespace)
    ELSE Len(s)

LStrip(s) == Drop(s, LeadingSpace(s))

RStrip(s) == Take(s, Len(s) - TrailingSpace(s))

Strip(s) == RStrip(LStrip(s))

LowerChar(c) ==
    IF IndexOf(UpperCase, c) > 0 THEN LowerCase[IndexOf(UpperCase, c)] ELSE c

Lower(s) == [i \in 1..Len(s) |-> LowerChar(s[i])]

\* s.split(d) for a one-character separator d: never empty, "" gives [""]
RECURSIVE Split(_, _)
Split(s, d) ==
    LET i == IndexOf(s, d)
    IN  IF i = 0 THEN <<s>> ELSE <<Take(s, i - 1)>> \o Split(Drop(s, i), d)

\* s.split(d, 1)
SplitOnce(s, d) ==
    LET i == IndexOf(s, d)
    IN  IF i = 0 THEN <<s>> ELSE <<Take(s, i - 1), Drop(s, i)>>

\* sep.join(parts)
RECURSIVE Join(_, _)
Join(parts, sep) ==
    IF Len(parts) = 0 THEN << >>
    ELSE IF Len(parts) = 1 THEN parts[1]
    ELSE parts[1] \o sep \o Join(Tail(parts), sep)

\* the position of the first occurrence of p in s at or after index from, 0 if none
Find(s, p, from) ==
    LET hits == {i \in from..(Len(s) - Len(p) + 1) : SubSeq(s, i, i + Len(p) - 1) = p}
    IN  IF hits = {} THEN 0 ELSE CHOOSE i \in hits : \A j \in hits : i <= j

----------------------------------------------------------------------------
(* Python values *)

PyStr(s) == [t |-> "str", v |-> s]

PyInt(n) == [t |-> "int", v |-> n]

PyBool(b) == [t |-> "bool", v |-> b]

PyFloat(m, e) == [t |-> "float", v |-> <<m, e>>]

PyDict(items) == [t |-> "dict", v |-> items]

PyList(elems) == [t |-> "list", v |-> elems]

Ref(id) == [t |-> "ref", v |-> id]

EmptyDict == PyDict(<< >>)

\* Optional[str]: None, or a str
None == [some |-> FALSE, v |-> << >>]

Some(s) == [some |-> TRUE, v |-> s]

\* truth value of an Optional[str]: None and "" are falsy
Truthy(o) == o.some /\ o.v # << >>

AllDigits(s) == \A i \in 1..Len(s) : IndexOf(Digits, s[i]) > 0

RECURSIVE DigitsValue(_)
DigitsValue(s) ==
    IF Len(s) = 0 THEN 0
    ELSE 10 * DigitsValue(Take(s, Len(s) - 1)) + (IndexOf(Digits, s[Len(s)]) - 1)

RECURSIVE DropTrailingZeros(_)
DropTrailingZeros(s) ==
    IF Len(s) > 0 /\ s[Len(s)] = "0" THEN DropTrailingZeros(Take(s, Len(s) - 1)) ELSE s

Signed(s) == Len(s) > 0 /\ s[1] \in {"+", "-"}

Unsigned(s) == IF Signed(s) THEN Tail(s) ELSE s

SignOf(s) == IF Len(s) > 0 /\ s[1] = "-" THEN -1 ELSE 1

\* int(s) for a stripped s of sign and ASCII digits; ok = FALSE is ValueError
ParseInt(s) ==
    LET body == Unsigned(s)
    IN  IF Len(body) > 0 /\ AllDigits(body)
        THEN [ok |-> TRUE, val |-> PyInt(SignOf(s) * DigitsValue(body))]
        ELSE [ok |-> FALSE, val |-> PyStr(s)]

\* float(s) for sign, digits, one '.', digits (a digit on at least one side);
\* ok = FALSE is ValueError.  Exponents, '_', inf and nan are not modelled:
\* no input of the model holds them.
ParseFloat(s) ==
    LET body  == Unsigned(s)
        parts == Split(body, ".")
    IN  IF /\ Len(parts) = 2
           /\ AllDigits(parts[1]) /\ AllDigits(parts[2])
           /\ Len(parts[1]) + Len(parts[2]) > 0
        THEN LET frac == DropTrailingZeros(parts[2])
             IN  [ok |-> TRUE,
                  val |-> PyFloat(SignOf(s) * DigitsValue(parts[1] \o frac), Len(frac))]
        ELSE [ok |-> FALSE, val |-> PyStr(s)]

\* a mutant of Coerce: a '.' no longer selects the float parse
CoerceIntOnly(val) ==
    IF Lower(val) = <<"t", "r", "u", "e">> THEN PyBool(TRUE)
    ELSE IF Lower(val) = <<"f", "a", "l", "s", "e">> THEN PyBool(FALSE)
    ELSE IF ParseInt(val).ok THEN ParseInt(val).val
    ELSE PyStr(val)

\* the scalar rule of a 'key: value' line and of a table field
Coerce(val) ==
    IF Lower(val) = <<"t", "r", "u", "e">> THEN PyBool(TRUE)
    ELSE IF Lower(val) = <<"f", "a", "l", "s", "e">> THEN PyBool(FALSE)
    ELSE IF Contains(val, ".")
         THEN (IF ParseFloat(val).ok THEN ParseFloat(val).val ELSE PyStr(val))
         ELSE (IF ParseInt(val).ok THEN ParseInt(val).val ELSE PyStr(val))


----------------------------------------------------------------------------
(* loads: the local state and the containers *)

\* the locals of loads after lines 14-21; heap[1] is result
InitDec ==
    [heap                   |-> <<EmptyDict>>,
     stack                  |-> << <<1, -1>> >>,
     current_list_key       |-> None,
     current_list_headers   |-> << >>,
     current_list_delimiter |-> ",",
     current_list           |-> << >>,
     in_list_mode           |-> FALSE,
     raised                 |-> "none"]

Raise(st, exc) == [st EXCEPT !.raised = exc]

\* stack[-1] and stack[-2], as <<container id, indent>>
Top(stack) == stack[Len(stack)]

Below(stack) == stack[Len(stack) - 1]

HasKey(items, key) == \E i \in 1..Len(items) : items[i][1] = key

\* d[key] = val on the items of a dict: a present key keeps its position
DictSet(items, key, val) ==
    IF HasKey(items, key)
    THEN [i \in 1..Len(items) |->
              IF items[i][1] = key THEN <<key, val>> ELSE items[i]]
    ELSE Append(items, <<key, val>>)

\* d[key] on the items of a dict holding key
DictGet(items, key) == items[CHOOSE i \in 1..Len(items) : items[i][1] = key][2]

\* key in container for an Optional[str] key: a dict's keys, a list's elements
InContainer(obj, key) ==
    /\ key.some
    /\ IF obj.t = "dict" THEN HasKey(obj.v, key.v)
       ELSE \E i \in 1..Len(obj.v) : obj.v[i].t = "str" /\ obj.v[i].v = key.v

\* the loop for k, v in parent.items(): if v is container: ... break
KeyPointingTo(items, id) ==
    LET hits == {i \in 1..Len(items) : items[i][2].t = "ref" /\ items[i][2].v = id}
    IN  IF hits = {} THEN None
        ELSE Some(items[CHOOSE i \in hits : \A j \in hits : i <= j][1])

\* a mutant of PopStack: a frame is closed only by a line of smaller indent
RECURSIVE PopStackStrict(_, _)
PopStackStrict(stack, indent) ==
    IF Len(stack) > 0 /\ indent < Top(stack)[2]
    THEN PopStackStrict(Take(stack, Len(stack) - 1), indent)
    ELSE stack

\* a mutant of PopStack: an if in place of the while, one frame is closed
PopStackOnce(stack, indent) ==
    IF Len(stack) > 0 /\ indent <= Top(stack)[2]
    THEN Take(stack, Len(stack) - 1)
    ELSE stack

\* while stack and indent <= stack[-1][1]: stack.pop()
RECURSIVE PopStack(_, _)
PopStack(stack, indent) ==
    IF Len(stack) > 0 /\ indent <= Top(stack)[2]
    THEN PopStack(Take(stack, Len(stack) - 1), indent)
    ELSE stack

\* a mutant of EndTable: the rows are put in the frame on top of the stack,
\* the placeholder, and not in the mapping that holds the key
EndTableOnTop(st) ==
    LET target == Top(st.stack)[1]
    IN  IF st.heap[target].t # "dict" THEN Raise(st, "TypeError")
        ELSE [st EXCEPT
                 !.heap[target] = PyDict(DictSet(@.v, st.current_list_key.v,
                                                 PyList(st.current_list))),
                 !.in_list_mode = FALSE,
                 !.current_list_key = None,
                 !.current_list = << >>,
                 !.current_list_headers = << >>]

\* end of a table: the rows go under the table's key
EndTable(st) ==
    LET target == IF /\ Len(st.stack) > 1
                     /\ InContainer(st.heap[Below(st.stack)[1]], st.current_list_key)
                  THEN Below(st.stack)[1]
                  ELSE Top(st.stack)[1]
    IN  IF st.heap[target].t # "dict" THEN Raise(st, "TypeError")
        ELSE [st EXCEPT
                 !.heap[target] = PyDict(DictSet(@.v, st.current_list_key.v,
                                                 PyList(st.current_list))),
                 !.in_list_mode = FALSE,
                 !.current_list_key = None,
                 !.current_list = << >>,
                 !.current_list_headers = << >>]

\* a mutant of BuildItem: the fields are matched to the headers from the right
RECURSIVE BuildItemReversed(_, _, _, _)
BuildItemReversed(headers, values, i, item) ==
    IF i > Len(headers) THEN item
    ELSE BuildItemReversed(headers, values, i + 1,
             IF i <= Len(values)
             THEN DictSet(item, headers[i], Coerce(values[Len(values) + 1 - i]))
             ELSE item)

\* a mutant of BuildItem: a header name with no field gets the empty string
RECURSIVE BuildItemPadded(_, _, _, _)
BuildItemPadded(headers, values, i, item) ==
    IF i > Len(headers) THEN item
    ELSE BuildItemPadded(headers, values, i + 1,
             DictSet(item, headers[i],
                     IF i <= Len(values) THEN Coerce(values[i]) ELSE PyStr(<< >>)))

\* for i, header in enumerate(current_list_headers): the record of one row
RECURSIVE BuildItem(_, _, _, _)
BuildItem(headers, values, i, item) ==
    IF i > Len(headers) THEN item
    ELSE BuildItem(headers, values, i + 1,
             IF i <= Len(values)
             THEN DictSet(item, headers[i], Coerce(values[i]))
             ELSE item)

StripAll(parts) == [i \in 1..Len(parts) |-> Strip(parts[i])]

\* a mutant of TableRow: a row is split on '|' when the row holds one
TableRowOwnDelimiter(st, content) ==
    LET values == StripAll(Split(content, IF Contains(content, "|") THEN "|" ELSE ","))
        item   == PyDict(BuildItem(st.current_list_headers, values, 1, << >>))
    IN  [st EXCEPT !.current_list = Append(@, item)]

\* a line inside a table: one more row
TableRow(st, content) ==
    LET values == StripAll(Split(content, st.current_list_delimiter))
        item   == PyDict(BuildItem(st.current_list_headers, values, 1, << >>))
    IN  [st EXCEPT !.current_list = Append(@, item)]

\* a mutant of AppendItem: a new item goes to the front of the list
AppendItemFront(elems, value) == <<PyStr(value)>> \o elems

\* container.append(value)
AppendItem(elems, value) == Append(elems, PyStr(value))

\* a '- value' line
ListItem(st, content) ==
    LET value     == Strip(Drop(content, 2))
        container == Top(st.stack)[1]
        convert   == /\ st.heap[container].t = "dict"
                     /\ st.heap[container].v = << >>
                     /\ Len(st.stack) > 1
        parent    == Below(st.stack)[1]
    IN  IF convert /\ st.heap[parent].t # "dict" THEN Raise(st, "AttributeError")
        ELSE
        LET key      == IF convert THEN KeyPointingTo(st.heap[parent].v, container)
                        ELSE None
            new_list == Len(st.heap) + 1
            st1      == IF convert /\ Truthy(key)
                        THEN [st EXCEPT
                                 !.heap = Append([@ EXCEPT ![parent] =
                                              PyDict(DictSet(@.v, key.v, Ref(new_list)))],
                                              PyList(<< >>)),
                                 !.stack[Len(st.stack)] = <<new_list, Top(st.stack)[2]>>]
                        ELSE st
            cont1    == Top(st1.stack)[1]
        IN  IF st1.heap[cont1].t = "list"
            THEN [st1 EXCEPT !.heap[cont1] = PyList(AppendItem(@.v, value))]
            ELSE st1

\* a mutant of KeyValue: 'key: []' opens a container the way 'key:' does, so
\* the list is on the stack and takes the items that follow
KeyValuePushList(st, content, indent) ==
    LET parts        == SplitOnce(content, ":")
        key          == Strip(parts[1])
        value        == Strip(parts[2])
        current_dict == Top(st.stack)[1]
        new_obj      == Len(st.heap) + 1
    IN  IF st.heap[current_dict].t # "dict" THEN Raise(st, "TypeError")
        ELSE IF value = << >> \/ value = <<"[", "]">>
        THEN [st EXCEPT
                 !.heap = Append([@ EXCEPT ![current_dict] =
                              PyDict(DictSet(@.v, key, Ref(new_obj)))],
                              IF value = << >> THEN EmptyDict ELSE PyList(<< >>)),
                 !.stack = Append(@, <<new_obj, indent>>)]
        ELSE [st EXCEPT !.heap[current_dict] = PyDict(DictSet(@.v, key, Coerce(value)))]

\* a line holding ':'
KeyValue(st, content, indent) ==
    LET parts        == SplitOnce(content, ":")
        key          == Strip(parts[1])
        value        == Strip(parts[2])
        current_dict == Top(st.stack)[1]
        new_obj      == Len(st.heap) + 1
    IN  IF st.heap[current_dict].t # "dict" THEN Raise(st, "TypeError")
        ELSE IF value = << >>
        THEN [st EXCEPT
                 !.heap = Append([@ EXCEPT ![current_dict] =
                              PyDict(DictSet(@.v, key, Ref(new_obj)))], EmptyDict),
                 !.stack = Append(@, <<new_obj, indent>>)]
        ELSE IF value = <<"[", "]">>
        THEN [st EXCEPT !.heap[current_dict] = PyDict(DictSet(@.v, key, PyList(<< >>)))]
        ELSE [st EXCEPT !.heap[current_dict] = PyDict(DictSet(@.v, key, Coerce(value)))]

\* the delimiter of a table, from its header line
Delimiter(content) == IF Contains(content, "|") THEN "|" ELSE ","

\* a mutant of Header: the mapping on top of the stack is not required to
\* be empty
HeaderAnyMapping(st, content) ==
    LET top == Top(st.stack)[1]
    IN  IF st.heap[top].t # "dict" THEN st
        ELSE IF Len(st.stack) < 2 THEN Raise(st, "IndexError")
        ELSE IF st.heap[Below(st.stack)[1]].t # "dict" THEN Raise(st, "AttributeError")
        ELSE
        LET key_for_this == KeyPointingTo(st.heap[Below(st.stack)[1]].v, top)
        IN  IF ~Truthy(key_for_this) THEN st
            ELSE [st EXCEPT
                     !.current_list_key = key_for_this,
                     !.current_list_delimiter = Delimiter(content),
                     !.current_list_headers =
                         StripAll(Split(content, Delimiter(content))),
                     !.current_list = << >>,
                     !.in_list_mode = TRUE]

\* a line with no ':' that is no '- ' item: the header of a table, or nothing
Header(st, content) ==
    LET top == Top(st.stack)[1]
    IN  IF ~(st.heap[top].t = "dict" /\ st.heap[top].v = << >>) THEN st
        ELSE IF Len(st.stack) < 2 THEN Raise(st, "IndexError")
        ELSE IF st.heap[Below(st.stack)[1]].t # "dict" THEN Raise(st, "AttributeError")
        ELSE
        LET key_for_this == KeyPointingTo(st.heap[Below(st.stack)[1]].v, top)
        IN  IF ~Truthy(key_for_this) THEN st
            ELSE [st EXCEPT
                     !.current_list_key = key_for_this,
                     !.current_list_delimiter = Delimiter(content),
                     !.current_list_headers =
                         StripAll(Split(content, Delimiter(content))),
                     !.current_list = << >>,
                     !.in_list_mode = TRUE]

\* a mutant of LineStep: a blank line closes every open container
LineStepBlankCloses(st, raw) ==
    LET line    == RStrip(raw)
        indent  == Len(line) - Len(LStrip(line))
        content == Strip(line)
    IN  IF line = << >> THEN [st EXCEPT !.stack = <<@[1]>>]
        ELSE IF st.in_list_mode /\ ~(indent <= Top(st.stack)[2])
        THEN TableRow(st, content)
        ELSE
        LET st1 == IF st.in_list_mode THEN EndTable(st) ELSE st
        IN  IF st1.raised # "none" THEN st1
            ELSE
            LET st2 == [st1 EXCEPT !.stack = PopStack(@, indent)]
            IN  IF Len(st2.stack) = 0 THEN Raise(st2, "IndexError")
                ELSE IF StartsWith(content, <<"-", " ">>) THEN ListItem(st2, content)
                ELSE IF Contains(content, ":") THEN KeyValue(st2, content, indent)
                ELSE Header(st2, content)

\* a mutant of LineStep: a blank line met in table mode ends the table
LineStepBlankEndsTable(st, raw) ==
    LET line    == RStrip(raw)
        indent  == Len(line) - Len(LStrip(line))
        content == Strip(line)
    IN  IF line = << >> THEN (IF st.in_list_mode THEN EndTable(st) ELSE st)
        ELSE IF st.in_list_mode /\ ~(indent <= Top(st.stack)[2])
        THEN TableRow(st, content)
        ELSE
        LET st1 == IF st.in_list_mode THEN EndTable(st) ELSE st
        IN  IF st1.raised # "none" THEN st1
            ELSE
            LET st2 == [st1 EXCEPT !.stack = PopStack(@, indent)]
            IN  IF Len(st2.stack) = 0 THEN Raise(st2, "IndexError")
                ELSE IF StartsWith(content, <<"-", " ">>) THEN ListItem(st2, content)
                ELSE IF Contains(content, ":") THEN KeyValue(st2, content, indent)
                ELSE Header(st2, content)

\* a mutant of LineStep: no continue after a row, the line of a row goes on
\* to the normal rules
LineStepNoContinue(st, raw) ==
    LET line    == RStrip(raw)
        indent  == Len(line) - Len(LStrip(line))
        content == Strip(line)
    IN  IF line = << >> THEN st
        ELSE
        LET st1 == IF st.in_list_mode /\ ~(indent <= Top(st.stack)[2])
                   THEN TableRow(st, content)
                   ELSE IF st.in_list_mode THEN EndTable(st) ELSE st
        IN  IF st1.raised # "none" THEN st1
            ELSE
            LET st2 == [st1 EXCEPT !.stack = PopStack(@, indent)]
            IN  IF Len(st2.stack) = 0 THEN Raise(st2, "IndexError")
                ELSE IF StartsWith(content, <<"-", " ">>) THEN ListItem(st2, content)
                ELSE IF Contains(content, ":") THEN KeyValue(st2, content, indent)
                ELSE Header(st2, content)

\* the body of for line in lines
LineStep(st, raw) ==
    LET line    == RStrip(raw)
        indent  == Len(line) - Len(LStrip(line))
        content == Strip(line)
    IN  IF line = << >> THEN st
        ELSE IF st.in_list_mode /\ ~(indent <= Top(st.stack)[2])
        THEN TableRow(st, content)
        ELSE
        LET st1 == IF st.in_list_mode THEN EndTable(st) ELSE st
        IN  IF st1.raised # "none" THEN st1
            ELSE
            LET st2 == [st1 EXCEPT !.stack = PopStack(@, indent)]
            IN  IF Len(st2.stack) = 0 THEN Raise(st2, "IndexError")
                ELSE IF StartsWith(content, <<"-", " ">>) THEN ListItem(st2, content)
                ELSE IF Contains(content, ":") THEN KeyValue(st2, content, indent)
                ELSE Header(st2, content)

\* after the loop: a table still open is stored
Cleanup(st) ==
    IF st.in_list_mode /\ Truthy(st.current_list_key)
    THEN LET target == IF /\ Len(st.stack) > 1
                          /\ InContainer(st.heap[Below(st.stack)[1]],
                                         st.current_list_key)
                       THEN Below(st.stack)[1]
                       ELSE Top(st.stack)[1]
         IN  IF st.heap[target].t # "dict" THEN Raise(st, "TypeError")
             ELSE [st EXCEPT !.heap[target] =
                       PyDict(DictSet(@.v, st.current_list_key.v,
                                      PyList(st.current_list)))]
    ELSE st

\* the Python value a heap value stands for
RECURSIVE Deref(_, _)
Deref(heap, val) ==
    IF val.t = "ref"
    THEN LET obj == heap[val.v]
         IN  IF obj.t = "dict"
             THEN PyDict([i \in 1..Len(obj.v) |->
                             <<obj.v[i][1], Deref(heap, obj.v[i][2])>>])
             ELSE PyList([i \in 1..Len(obj.v) |-> Deref(heap, obj.v[i])])
    ELSE val

\* result as a Python value
Result(st) == Deref(st.heap, Ref(1))

\* text.strip().split('\n')
SplitLines(txt) == Split(Strip(txt), "\n")

RECURSIVE RunLines(_, _, _)
RunLines(st, ls, i) ==
    IF i > Len(ls) \/ st.raised # "none" THEN st
    ELSE RunLines(LineStep(st, ls[i]), ls, i + 1)

\* loads(text) as a function: [raised, val]
Loads(txt) ==
    LET st  == RunLines(InitDec, SplitLines(txt), 1)
        end == IF st.raised = "none" THEN Cleanup(st) ELSE st
    IN  [raised |-> end.raised,
         val    |-> IF end.raised = "none" THEN Result(end) ELSE EmptyDict]


PyNone == [t |-> "none", v |-> << >>]

----------------------------------------------------------------------------
(* loads, one line of the loop at a time *)

\* the longest input, in lines
MaxLines == 4

\* the lines the inputs are made of: key lines at two depths, '- ' items at
\* two depths, a '|' header, a '|' row, a bare word, 'key: value' lines at
\* two depths and the blank line
LinePool ==
    {<<"a", ":">>,
     <<" ", " ", "n", ":">>,
     <<" ", " ", "-", " ", "r">>,
     <<" ", " ", " ", " ", "-", " ", "1", "0">>,
     <<" ", " ", "h", " ", "|", " ", "g">>,
     <<" ", " ", "P", " ", "|", " ", "2">>,
     <<" ", " ", "q">>,
     <<"b", ":", " ", "1">>,
     <<" ", " ", "c", ":", " ", "x">>,
     << >>}

LoadsTexts ==
    {Join(ls, <<"\n">>) : ls \in UNION {[1..n -> LinePool] : n \in 1..MaxLines}}

InitPr == [tried |-> << >>, escaped |-> "none"]

\* no concurrent invocation of loads
NoCalls == [inv |-> << >>, locals |-> << >>]

\* no thread uses the token tracker
NoTracker == [fields |-> << >>, lock |-> 0, th |-> << >>, returned |-> << >>]

InitLoads ==
    /\ text \in LoadsTexts
    /\ lines = << >>
    /\ pos = 0
    /\ dec = InitDec
    /\ pc = "call"
    /\ ret = PyNone
    /\ data = EmptyDict
    /\ pr = InitPr
    /\ calls = NoCalls
    /\ tracker = NoTracker

\* lines 13-21: split the text, set up the locals
LoadsStart ==
    /\ pc = "call"
    /\ lines' = SplitLines(text)
    /\ pos' = 1
    /\ dec' = InitDec
    /\ pc' = "loop"
    /\ UNCHANGED <<text, ret, data, pr, calls, tracker>>

\* lines 23-169: one iteration of the loop; an exception ends the call
LoadsLine ==
    /\ pc = "loop"
    /\ pos <= Len(lines)
    /\ dec' = LineStep(dec, lines[pos])
    /\ pos' = pos + 1
    /\ pc' = IF dec'.raised # "none" THEN "raised" ELSE "loop"
    /\ UNCHANGED <<text, lines, ret, data, pr, calls, tracker>>

\* lines 171-178: the cleanup and the return
LoadsReturn ==
    /\ pc = "loop"
    /\ pos > Len(lines)
    /\ dec' = Cleanup(dec)
    /\ pc' = IF dec'.raised # "none" THEN "raised" ELSE "done"
    /\ ret' = IF dec'.raised # "none" THEN ret ELSE Result(dec')
    /\ UNCHANGED <<text, lines, pos, data, pr, calls, tracker>>

NextLoads == LoadsStart \/ LoadsLine \/ LoadsReturn

SpecLoads == InitLoads /\ [][NextLoads]_vars


----------------------------------------------------------------------------
(* dumps *)

RECURSIVE NatStr(_)
NatStr(n) ==
    IF n < 10 THEN <<Digits[n + 1]>>
    ELSE NatStr(n \div 10) \o <<Digits[(n % 10) + 1]>>

\* str(n) of an int
IntStr(n) == IF n < 0 THEN <<"-">> \o NatStr(-n) ELSE NatStr(n)

RECURSIVE ZeroPad(_, _)
ZeroPad(s, n) == IF Len(s) >= n THEN s ELSE ZeroPad(<<"0">> \o s, n)

\* str(x) of a float m / 10^e, in positional notation
FloatStr(m, e) ==
    LET ds == ZeroPad(NatStr(IF m < 0 THEN -m ELSE m), e + 1)
    IN  (IF m < 0 THEN <<"-">> ELSE << >>)
        \o Take(ds, Len(ds) - e) \o <<".">>
        \o (IF e = 0 THEN <<"0">> ELSE Drop(ds, Len(ds) - e))

Quoted(s) == <<"'">> \o s \o <<"'">>

\* str(v) when top, repr(v) inside a container
RECURSIVE PyStrOf(_, _)
PyStrOf(v, top) ==
    CASE v.t = "str"   -> IF top THEN v.v ELSE Quoted(v.v)
      [] v.t = "int"   -> IntStr(v.v)
      [] v.t = "bool"  -> IF v.v THEN <<"T", "r", "u", "e">>
                                 ELSE <<"F", "a", "l", "s", "e">>
      [] v.t = "float" -> FloatStr(v.v[1], v.v[2])
      [] v.t = "none"  -> <<"N", "o", "n", "e">>
      [] v.t = "list"  ->
            <<"[">> \o Join([i \in 1..Len(v.v) |-> PyStrOf(v.v[i], FALSE)], <<",", " ">>)
                    \o <<"]">>
      [] v.t = "dict"  ->
            <<"{">> \o Join([i \in 1..Len(v.v) |->
                               Quoted(v.v[i][1]) \o <<":", " ">>
                                   \o PyStrOf(v.v[i][2], FALSE)], <<",", " ">>)
                    \o <<"}">>

StrOf(v) == PyStrOf(v, TRUE)

Spaces(n) == [i \in 1..n |-> " "]

Keys(items) == [i \in 1..Len(items) |-> items[i][1]]

\* lines 198-205: a list whose first element is a dict, as a header and rows;
\* item.get on an element that is no dict raises AttributeError
TableLines(prefix, key, value) ==
    LET headers == Keys(value[1].v)
        row(item) == [j \in 1..Len(headers) |->
                         IF HasKey(item.v, headers[j])
                         THEN StrOf(DictGet(item.v, headers[j])) ELSE << >>]
    IN  [raised |-> IF \E i \in 1..Len(value) : value[i].t # "dict"
                    THEN "AttributeError" ELSE "none",
         lines  |-> <<prefix \o key \o <<":">>,
                      prefix \o <<" ", " ">> \o Join(headers, <<",", " ">>)>>
                    \o [i \in 1..Len(value) |->
                           IF value[i].t # "dict" THEN << >>
                           ELSE prefix \o <<" ", " ">>
                                    \o Join(row(value[i]), <<",", " ">>)]]

\* line 208: a non-empty list of scalars, on the key's line
PrimitiveLine(prefix, key, value) ==
    prefix \o key \o <<":", " ">>
        \o Join([i \in 1..Len(value) |-> StrOf(value[i])], <<",", " ">>)

\* the loop of dumps from item i on: [raised, lines]
RECURSIVE DumpsFrom(_, _, _)
DumpsFrom(items, i, indent) ==
    IF i > Len(items) THEN [raised |-> "none", lines |-> << >>]
    ELSE
    LET prefix == Spaces(indent)
        key    == items[i][1]
        value  == items[i][2]
        here   ==
            IF value.t = "dict"
            THEN LET sub == DumpsFrom(value.v, 1, indent + 2)
                 IN  [raised |-> sub.raised,
                      lines  |-> <<prefix \o key \o <<":">>, Join(sub.lines, <<"\n">>)>>]
            ELSE IF value.t = "list"
            THEN IF Len(value.v) = 0
                 THEN [raised |-> "none",
                       lines  |-> <<prefix \o key \o <<":", " ", "[", "]">>>>]
                 ELSE IF value.v[1].t = "dict"
                 THEN TableLines(prefix, key, value.v)
                 ELSE [raised |-> "none",
                       lines  |-> <<PrimitiveLine(prefix, key, value.v)>>]
            ELSE [raised |-> "none",
                  lines  |-> <<prefix \o key \o <<":", " ">> \o StrOf(value)>>]
    IN  IF here.raised # "none" THEN here
        ELSE LET rest == DumpsFrom(items, i + 1, indent)
             IN  [raised |-> rest.raised, lines |-> here.lines \o rest.lines]

\* dumps(data, indent): [raised, out]
Dumps(d, indent) ==
    LET r == DumpsFrom(d.v, 1, indent)
    IN  [raised |-> r.raised,
         out    |-> IF r.raised = "none" THEN Join(r.lines, <<"\n">>) ELSE << >>]

----------------------------------------------------------------------------
(* dumps followed by loads *)

\* the largest number of keys of the mapping given to dumps
MaxKeys == 2

KeyNames == <<<<"a">>, <<"b">>, <<"k">>>>

\* the values of the mapping: scalars of every kind, nested mappings,
\* lists of scalars and lists of same-key mappings
ValuePool ==
    {PyInt(7),
     PyStr(<<"x">>),
     PyBool(TRUE),
     PyFloat(25, 1),
     PyStr(<< >>),
     PyDict(<<>>),
     PyDict(<<<<<<"c">>, PyInt(1)>>>>),
     PyDict(<<<<<<"c">>, PyDict(<<<<<<"d">>, PyStr(<<"x">>)>>>>)>>>>),
     PyList(<<PyStr(<<"r">>)>>),
     PyList(<<PyStr(<<"r">>), PyInt(10)>>),
     PyList(<<PyDict(<<<<<<"h">>, PyStr(<<"x">>)>>>>)>>),
     PyList(<<PyDict(<<<<<<"h">>, PyStr(<< >>)>>>>)>>),
     PyList(<<PyDict(<<<<<<"h">>, PyInt(1)>>, <<<<"g">>, PyStr(<<"x">>)>>>>)>>),
     PyList(<<PyDict(<<<<<<"h">>, PyStr(<<"x">>)>>, <<<<"g">>, PyStr(<< >>)>>>>), PyDict(<<<<<<"h">>, PyBool(FALSE)>>, <<<<"g">>, PyInt(2)>>>>)>>),
     PyList(<<PyDict(<<<<<<"h">>, PyStr(<<"y">>)>>>>), PyDict(<<<<<<"h">>, PyFloat(15, 1)>>>>)>>)}

Mappings ==
    UNION {{PyDict([i \in 1..n |-> <<KeyNames[i], f[i]>>]) :
               f \in [1..n -> ValuePool]} : n \in 1..MaxKeys}

InitRound ==
    /\ data \in Mappings
    /\ text = << >>
    /\ lines = << >>
    /\ pos = 0
    /\ dec = InitDec
    /\ pc = "dumps"
    /\ ret = PyNone
    /\ pr = InitPr
    /\ calls = NoCalls
    /\ tracker = NoTracker

\* text = dumps(data): the whole call
DumpsCall ==
    /\ pc = "dumps"
    /\ LET r == Dumps(data, 0)
       IN  /\ text' = r.out
           /\ pc' = IF r.raised # "none" THEN "raised" ELSE "call"
    /\ UNCHANGED <<lines, pos, dec, ret, data, pr, calls, tracker>>

NextRound == DumpsCall \/ LoadsStart \/ LoadsLine \/ LoadsReturn

SpecRound == InitRound /\ [][NextRound]_vars


----------------------------------------------------------------------------
(* json.loads, for JSON without escapes and exponents *)

JsonWhitespace == {" ", "\n", "\t", "\r"}

JsonFail == [ok |-> FALSE, val |-> PyNone, next |-> 0]

\* the first index at or after i that holds no JSON whitespace
SkipWs(s, i) ==
    LET rest == {j \in i..Len(s) : s[j] \notin JsonWhitespace}
    IN  IF rest = {} THEN Len(s) + 1 ELSE CHOOSE j \in rest : \A k \in rest : j <= k

\* the first index at or after i that holds no digit
SkipDigits(s, i) ==
    LET rest == {j \in i..Len(s) : IndexOf(Digits, s[j]) = 0}
    IN  IF rest = {} THEN Len(s) + 1 ELSE CHOOSE j \in rest : \A k \in rest : j <= k

JsonString(s, i) ==
    LET close == {j \in (i + 1)..Len(s) : s[j] = "\""}
    IN  IF close = {} THEN JsonFail
        ELSE LET j    == CHOOSE j \in close : \A k \in close : j <= k
                 body == SubSeq(s, i + 1, j - 1)
             IN  IF \E k \in 1..Len(body) : body[k] \in {"\\", "\n", "\t", "\r"}
                 THEN JsonFail
                 ELSE [ok |-> TRUE, val |-> PyStr(body), next |-> j + 1]

JsonNumber(s, i) ==
    LET start   == IF s[i] = "-" THEN i + 1 ELSE i
        intEnd  == SkipDigits(s, start)
        intOk   == intEnd > start /\ (s[start] = "0" => intEnd = start + 1)
        hasFrac == intEnd <= Len(s) /\ s[intEnd] = "."
        fracEnd == IF hasFrac THEN SkipDigits(s, intEnd + 1) ELSE intEnd
    IN  IF ~intOk THEN JsonFail
        ELSE IF hasFrac /\ fracEnd > intEnd + 1
        THEN [ok |-> TRUE, val |-> ParseFloat(SubSeq(s, i, fracEnd - 1)).val,
              next |-> fracEnd]
        ELSE [ok |-> TRUE, val |-> ParseInt(SubSeq(s, i, intEnd - 1)).val,
              next |-> intEnd]

JsonLiteral(s, i, word, val) ==
    IF StartsWith(Drop(s, i - 1), word)
    THEN [ok |-> TRUE, val |-> val, next |-> i + Len(word)]
    ELSE JsonFail

RECURSIVE JsonValue(_, _), JsonElements(_, _, _), JsonMembers(_, _, _)

\* the value that starts at or after index from: [ok, val, next]
JsonValue(s, from) ==
    LET i == SkipWs(s, from)
    IN  IF i > Len(s) THEN JsonFail
        ELSE IF s[i] = "{"
        THEN LET j == SkipWs(s, i + 1)
             IN  IF j <= Len(s) /\ s[j] = "}"
                 THEN [ok |-> TRUE, val |-> EmptyDict, next |-> j + 1]
                 ELSE JsonMembers(s, j, << >>)
        ELSE IF s[i] = "["
        THEN LET j == SkipWs(s, i + 1)
             IN  IF j <= Len(s) /\ s[j] = "]"
                 THEN [ok |-> TRUE, val |-> PyList(<< >>), next |-> j + 1]
                 ELSE JsonElements(s, j, << >>)
        ELSE IF s[i] = "\"" THEN JsonString(s, i)
        ELSE IF s[i] = "-" \/ IndexOf(Digits, s[i]) > 0 THEN JsonNumber(s, i)
        ELSE IF s[i] = "t" THEN JsonLiteral(s, i, <<"t", "r", "u", "e">>, PyBool(TRUE))
        ELSE IF s[i] = "f"
        THEN JsonLiteral(s, i, <<"f", "a", "l", "s", "e">>, PyBool(FALSE))
        ELSE IF s[i] = "n" THEN JsonLiteral(s, i, <<"n", "u", "l", "l">>, PyNone)
        ELSE JsonFail

\* the elements of an array from index i on, up to its ']'
JsonElements(s, i, acc) ==
    LET v == JsonValue(s, i)
    IN  IF ~v.ok THEN JsonFail
        ELSE LET k == SkipWs(s, v.next)
             IN  IF k > Len(s) THEN JsonFail
                 ELSE IF s[k] = "," THEN JsonElements(s, k + 1, Append(acc, v.val))
                 ELSE IF s[k] = "]"
                 THEN [ok |-> TRUE, val |-> PyList(Append(acc, v.val)), next |-> k + 1]
                 ELSE JsonFail

\* the members of an object from index i on, up to its '}'
JsonMembers(s, i, acc) ==
    LET j == SkipWs(s, i)
    IN  IF j > Len(s) \/ s[j] # "\"" THEN JsonFail
        ELSE
        LET key == JsonString(s, j)
        IN  IF ~key.ok THEN JsonFail
            ELSE
            LET c == SkipWs(s, key.next)
            IN  IF c > Len(s) \/ s[c] # ":" THEN JsonFail
                ELSE
                LET v == JsonValue(s, c + 1)
                IN  IF ~v.ok THEN JsonFail
                    ELSE
                    LET k    == SkipWs(s, v.next)
                        acc1 == DictSet(acc, key.val.v, v.val)
                    IN  IF k > Len(s) THEN JsonFail
                        ELSE IF s[k] = "," THEN JsonMembers(s, k + 1, acc1)
                        ELSE IF s[k] = "}"
                        THEN [ok |-> TRUE, val |-> PyDict(acc1), next |-> k + 1]
                        ELSE JsonFail

\* json.loads(s): [raised, val]
JsonLoads(s) ==
    LET v == JsonValue(s, 1)
    IN  IF v.ok /\ SkipWs(s, v.next) > Len(s)
        THEN [raised |-> "none", val |-> v.val]
        ELSE [raised |-> "JSONDecodeError", val |-> PyNone]

----------------------------------------------------------------------------
(* parse_response *)

\* the backquote character, which a TLA+ string cannot hold
Backtick == "backquote"

Fence == <<Backtick, Backtick, Backtick>>

\* re.search(the fence pattern of the given tag, text, re.DOTALL): [found, group]
FencedBlock(txt, tag) ==
    LET opener == Fence \o tag \o <<"\n">>
        i      == Find(txt, opener, 1)
        start  == i + Len(opener)
        j      == IF i = 0 THEN 0 ELSE Find(txt, <<"\n">> \o Fence, start)
    IN  IF i = 0 \/ j = 0 THEN [found |-> FALSE, group |-> << >>]
        ELSE [found |-> TRUE, group |-> SubSeq(txt, start, j - 1)]

ToonTag == <<"t", "o", "o", "n">>

JsonTag == <<"j", "s", "o", "n">>

\* a mutant of Caught: the handlers name ValueError only
CaughtValueError(exc) == exc \in {"ValueError", "JSONDecodeError"}

\* except Exception catches every exception the decoders raise
Caught(exc) == TRUE

\* a mutant of AfterFailure: a failed strategy ends the search
AfterFailureStop(strategy) == "pr_fail"

\* where control goes when a strategy's decode raised and was caught
AfterFailure(strategy) ==
    CASE strategy = "toon_block" -> "pr_json"
      [] strategy = "json_block" -> "pr_rawjson"
      [] strategy = "raw_json"   -> "pr_rawtoon"
      [] strategy = "raw_toon"   -> "pr_fail"

\* a mutant of FirstStrategy: the fenced json block is looked for first
FirstStrategyJson == "pr_json"

\* the strategy parse_response starts with
FirstStrategy == "pr_toon"

\* where control goes when a strategy's fenced block is absent
AfterAbsent(strategy) ==
    CASE strategy = "toon_block" -> "pr_json"
      [] strategy = "json_block" -> "pr_rawjson"

\* the longest response, in segments
MaxSegments == 3

\* the segments the responses are made of: fenced toon blocks (decodable,
\* raising, decodable to nothing), fenced json blocks (object, array,
\* invalid), raw JSON (object, array), a TOON line, a bare word, a blank line
SegmentPool ==
    {<<Backtick, Backtick, Backtick, "t", "o", "o", "n", "\n", "x", ":", " ", "1", "\n", Backtick, Backtick, Backtick>>,
     <<Backtick, Backtick, Backtick, "t", "o", "o", "n", "\n", "f", "o", "o", "\n", Backtick, Backtick, Backtick>>,
     <<Backtick, Backtick, Backtick, "t", "o", "o", "n", "\n", "-", " ", "r", "\n", Backtick, Backtick, Backtick>>,
     <<Backtick, Backtick, Backtick, "j", "s", "o", "n", "\n", "{", "\"", "x", "\"", ":", " ", "2", "}", "\n", Backtick, Backtick, Backtick>>,
     <<Backtick, Backtick, Backtick, "j", "s", "o", "n", "\n", "[", "1", ",", " ", "2", "]", "\n", Backtick, Backtick, Backtick>>,
     <<Backtick, Backtick, Backtick, "j", "s", "o", "n", "\n", "{", "b", "a", "d", "\n", Backtick, Backtick, Backtick>>,
     <<"{", "\"", "y", "\"", ":", " ", "3", "}">>,
     <<"[", "7", "]">>,
     <<"y", ":", " ", "4">>,
     <<"w", "o", "r", "d">>,
     << >>}

ResponseTexts ==
    {Join(ss, <<"\n">>) : ss \in UNION {[1..n -> SegmentPool] : n \in 1..MaxSegments}}

InitParse ==
    /\ text \in ResponseTexts
    /\ lines = << >>
    /\ pos = 0
    /\ dec = InitDec
    /\ pc = "pr_call"
    /\ ret = PyNone
    /\ data = EmptyDict
    /\ pr = InitPr
    /\ calls = NoCalls
    /\ tracker = NoTracker

\* one try/except of parse_response around the decode result r of a strategy
Attempt(strategy, r) ==
    /\ pr' = [tried   |-> Append(pr.tried, strategy),
              escaped |-> IF r.raised # "none" /\ ~Caught(r.raised)
                          THEN r.raised ELSE "none"]
    /\ IF r.raised = "none" THEN pc' = "done" /\ ret' = r.val
       ELSE IF ~Caught(r.raised) THEN pc' = "raised" /\ UNCHANGED ret
       ELSE pc' = AfterFailure(strategy) /\ UNCHANGED ret

\* lines 219-220
ParseStart ==
    /\ pc = "pr_call"
    /\ IF text = << >> \/ Strip(text) = << >>
       THEN pc' = "done" /\ ret' = EmptyDict
       ELSE pc' = FirstStrategy /\ UNCHANGED ret
    /\ UNCHANGED <<text, lines, pos, dec, data, pr, calls, tracker>>

\* lines 222-228
ParseToonBlock ==
    /\ pc = "pr_toon"
    /\ LET m == FencedBlock(text, ToonTag)
       IN  IF m.found THEN Attempt("toon_block", Loads(m.group))
           ELSE pc' = AfterAbsent("toon_block") /\ UNCHANGED <<ret, pr>>
    /\ UNCHANGED <<text, lines, pos, dec, data, calls, tracker>>

\* lines 230-236
ParseJsonBlock ==
    /\ pc = "pr_json"
    /\ LET m == FencedBlock(text, JsonTag)
       IN  IF m.found THEN Attempt("json_block", JsonLoads(m.group))
           ELSE pc' = AfterAbsent("json_block") /\ UNCHANGED <<ret, pr>>
    /\ UNCHANGED <<text, lines, pos, dec, data, calls, tracker>>

\* lines 238-242
ParseRawJson ==
    /\ pc = "pr_rawjson"
    /\ Attempt("raw_json", JsonLoads(text))
    /\ UNCHANGED <<text, lines, pos, dec, data, calls, tracker>>

\* lines 244-246
ParseRawToon ==
    /\ pc = "pr_rawtoon"
    /\ Attempt("raw_toon", Loads(text))
    /\ UNCHANGED <<text, lines, pos, dec, data, calls, tracker>>

\* lines 247-248: the last handler returns the empty mapping
ParseFail ==
    /\ pc = "pr_fail"
    /\ pc' = "done"
    /\ ret' = EmptyDict
    /\ UNCHANGED <<text, lines, pos, dec, data, pr, calls, tracker>>

NextParse ==
    \/ ParseStart
    \/ ParseToonBlock
    \/ ParseJsonBlock
    \/ ParseRawJson
    \/ ParseRawToon
    \/ ParseFail

SpecParse == InitParse /\ [][NextParse]_vars


----------------------------------------------------------------------------
(* loads on 'key: value' lines *)

\* the longest input of scalar lines
MaxScalarLines == 2

\* the value tokens: booleans in several cases, integers with and without a
\* sign, floats, tokens with a '.' that is no float, and plain words
TokenPool ==
    {<<"t", "r", "u", "e">>,
     <<"T", "R", "U", "E">>,
     <<"F", "a", "l", "s", "e">>,
     <<"1", "0">>,
     <<"-", "7">>,
     <<"+", "5">>,
     <<"2", ".", "5">>,
     <<"0", ".", "1", "0">>,
     <<".", "5">>,
     <<"5", ".">>,
     <<"1", ".", "2", ".", "3">>,
     <<"h", "e", "l", "l", "o">>,
     <<"t", "r", "u">>,
     <<"1", "a">>,
     <<"-">>,
     <<".">>}

ScalarLine(i, tok) == KeyNames[i] \o <<":", " ">> \o tok

ScalarTexts ==
    UNION {{Join([i \in 1..n |-> ScalarLine(i, f[i])], <<"\n">>) :
               f \in [1..n -> TokenPool]} : n \in 1..MaxScalarLines}

InitScalar ==
    /\ text \in ScalarTexts
    /\ lines = << >>
    /\ pos = 0
    /\ dec = InitDec
    /\ pc = "call"
    /\ ret = PyNone
    /\ data = EmptyDict
    /\ pr = InitPr
    /\ calls = NoCalls
    /\ tracker = NoTracker

SpecScalar == InitScalar /\ [][NextLoads]_vars

----------------------------------------------------------------------------
(* every call together *)

Init == InitLoads \/ InitScalar \/ InitRound \/ InitParse

Next == NextLoads \/ DumpsCall \/ NextParse

Spec == Init /\ [][Next]_vars


----------------------------------------------------------------------------
(* Claims about loads and parse_response as total functions *)

\* C1: for every input string loads completes without raising and returns a
\* mapping, also for a first line that has no ':' and is no '- ' item and
\* for a 'key: value' line at the indentation of the '- ' items before it.
C1_LoadsNeverRaises ==
    /\ pc # "raised"
    /\ dec.raised = "none"
    /\ pc = "done" => ret.t = "dict"

\* C2: the value parse_response returns is a mapping, whichever strategy
\* produced it.
C2_ResultIsMapping == pc = "done" => ret.t = "dict"

ToonMatch == FencedBlock(text, ToonTag)

JsonMatch == FencedBlock(text, JsonTag)

ToonBlockOk == ToonMatch.found /\ Loads(ToonMatch.group).raised = "none"

JsonBlockOk == JsonMatch.found /\ JsonLoads(JsonMatch.group).raised = "none"

RawJsonOk == JsonLoads(text).raised = "none"

RawToonOk == Loads(text).raised = "none"

Blank == text = << >> \/ Strip(text) = << >>

\* C3: parse_response never raises: no exception of a strategy escapes, and
\* when the text is blank or every applicable strategy raises, the result is
\* the empty mapping.
C3_NeverRaises ==
    /\ pc # "raised"
    /\ pr.escaped = "none"
    /\ (pc = "done" /\ (Blank \/ (~ToonBlockOk /\ ~JsonBlockOk /\ ~RawJsonOk /\ ~RawToonOk)))
           => ret = EmptyDict

\* C3's case: all four strategies were tried, each raised, and the call
\* returned the empty mapping
C3_Witness ==
    /\ pc = "done"
    /\ pr.tried = <<"toon_block", "json_block", "raw_json", "raw_toon">>
    /\ ToonMatch.found /\ JsonMatch.found
    /\ ~ToonBlockOk /\ ~JsonBlockOk /\ ~RawJsonOk /\ ~RawToonOk
    /\ ret = EmptyDict


\* the value the strategies yield when taken in their order, each one only
\* if the ones before it raised or had no block to decode
FirstSuccess ==
    IF ToonBlockOk THEN Loads(ToonMatch.group).val
    ELSE IF JsonBlockOk THEN JsonLoads(JsonMatch.group).val
    ELSE IF RawJsonOk THEN JsonLoads(text).val
    ELSE IF RawToonOk THEN Loads(text).val
    ELSE EmptyDict

\* C4: the strategies run in the order fenced toon block, fenced json block,
\* raw JSON, raw TOON and the first that does not raise gives the result,
\* even an empty one: when the text holds a fenced toon block (the one the
\* search finds) whose content decodes, the result is loads of that content,
\* whatever fenced json block stands before or after it.
C4_FirstSuccessWins ==
    (pc = "done" /\ ~Blank) =>
        /\ ret = FirstSuccess
        /\ ToonBlockOk => (ret = Loads(ToonMatch.group).val /\ pr.tried = <<"toon_block">>)

\* C4's case: a decodable fenced json block stands before a fenced toon
\* block, and the result is the toon block's, not the json block's
C4_Witness ==
    /\ pc = "done"
    /\ ToonBlockOk /\ JsonBlockOk
    /\ Find(text, Fence \o JsonTag, 1) < Find(text, Fence \o ToonTag, 1)
    /\ JsonLoads(JsonMatch.group).val # Loads(ToonMatch.group).val
    /\ ret = Loads(ToonMatch.group).val

\* C5: a strategy whose block is found but whose decode raises falls through
\* to the next one: a raising toon block and a fenced json object give the
\* json object; an invalid fenced json block in a text that is no JSON
\* itself leads to raw TOON of the whole text.
C5_FallThrough ==
    /\ (pc = "done" /\ ToonMatch.found /\ ~ToonBlockOk /\ JsonBlockOk
           /\ JsonLoads(JsonMatch.group).val.t = "dict")
         => /\ ret = JsonLoads(JsonMatch.group).val
            /\ pr.tried = <<"toon_block", "json_block">>
    /\ (pc = "done" /\ ~ToonBlockOk /\ JsonMatch.found /\ ~JsonBlockOk /\ ~RawJsonOk)
         => /\ pr.tried[Len(pr.tried)] = "raw_toon"
            /\ ret = IF RawToonOk THEN Loads(text).val ELSE EmptyDict

\* C5's first case: the toon block raised, the json block gave its object
C5_Witness ==
    /\ pc = "done"
    /\ ToonMatch.found /\ ~ToonBlockOk
    /\ pr.tried = <<"toon_block", "json_block">>
    /\ ret.t = "dict" /\ ret # EmptyDict
    /\ ret = JsonLoads(JsonMatch.group).val

\* C5's second case: the json block raised, raw JSON raised, raw TOON of the
\* whole text gave a mapping that is not empty
C5_WitnessRawToon ==
    /\ pc = "done"
    /\ JsonMatch.found /\ ~JsonBlockOk
    /\ pr.tried = <<"json_block", "raw_json", "raw_toon">>
    /\ ret # EmptyDict
    /\ ret = Loads(text).val


----------------------------------------------------------------------------
(* Claims about dumps followed by loads *)

\* a value holds an empty string somewhere
RECURSIVE HasEmptyStr(_)
HasEmptyStr(v) ==
    CASE v.t = "str"  -> v.v = << >>
      [] v.t = "dict" -> \E i \in 1..Len(v.v) : HasEmptyStr(v.v[i][2])
      [] v.t = "list" -> \E i \in 1..Len(v.v) : HasEmptyStr(v.v[i])
      [] OTHER        -> FALSE

\* C6: for a mapping of scalars, nested mappings, non-empty lists of scalars
\* and non-empty lists of same-key mappings, with no delimiter inside a value
\* (and, here, no empty string), loads(dumps(m)) = m, types included.
C6_RoundTrip ==
    /\ pc # "raised"
    /\ (pc = "done" /\ ~HasEmptyStr(data)) => ret = data

\* a non-empty list of mappings that all have the keys of the first
IsTable(v) ==
    /\ v.t = "list"
    /\ Len(v.v) > 0
    /\ \A i \in 1..Len(v.v) : v.v[i].t = "dict" /\ Keys(v.v[i].v) = Keys(v.v[1].v)

\* the records the claim expects back: same rows, same fields, each value
\* the coercion of its written form
CoercedTable(v) ==
    PyList([i \in 1..Len(v.v) |->
               PyDict([j \in 1..Len(v.v[i].v) |->
                          <<v.v[i].v[j][1], Coerce(Strip(StrOf(v.v[i].v[j][2])))>>])])

\* C7: a key whose value is a non-empty list of same-key mappings with no
\* comma in any value comes back from dumps then loads as the same list of
\* records: same rows in the same order, same fields, same coerced values.
C7_TableRoundTrip ==
    pc = "done" =>
        \A i \in 1..Len(data.v) :
            IsTable(data.v[i][2]) =>
                /\ HasKey(ret.v, data.v[i][1])
                /\ DictGet(ret.v, data.v[i][1]) = CoercedTable(data.v[i][2])

\* C7 with the rows set aside that dumps writes as a blank line (one column,
\* empty string)
TableRoundTripButBlankRows ==
    pc = "done" =>
        \A i \in 1..Len(data.v) :
            (IsTable(data.v[i][2])
               /\ \A r \in 1..Len(data.v[i][2].v) :
                      Strip(Join([j \in 1..Len(data.v[i][2].v[r].v) |->
                                   StrOf(data.v[i][2].v[r].v[j][2])], <<",", " ">>)) # << >>)
            => /\ HasKey(ret.v, data.v[i][1])
               /\ DictGet(ret.v, data.v[i][1]) = CoercedTable(data.v[i][2])


----------------------------------------------------------------------------
(* Claims about the blocks loads decodes *)

LineIndent(l) == LeadingSpace(RStrip(l))

LineContent(l) == Strip(l)

IsBlankLine(l) == Strip(l) = << >>

IsItemLine(l) == StartsWith(LineContent(l), <<"-", " ">>)

IsColonLine(l) == ~IsItemLine(l) /\ Contains(LineContent(l), ":")

KeyOf(l) == Strip(SplitOnce(LineContent(l), ":")[1])

ValueOf(l) == Strip(SplitOnce(LineContent(l), ":")[2])

\* 'key:' with a key and no value
IsKeyLine(l) == IsColonLine(l) /\ KeyOf(l) # << >> /\ ValueOf(l) = << >>

\* 'key: value' with a value that is not '[]'
IsScalarLine(l) ==
    IsColonLine(l) /\ KeyOf(l) # << >> /\ ValueOf(l) \notin {<< >>, <<"[", "]">>}

\* neither blank, nor a '- ' item, nor a line with ':'
IsBareLine(l) == ~IsBlankLine(l) /\ ~IsItemLine(l) /\ ~Contains(LineContent(l), ":")

\* lines from..to are 'key: value' lines of the root whose key is not key
RootScalars(ls, from, to, key) ==
    \A i \in from..to :
        IsScalarLine(ls[i]) /\ LineIndent(ls[i]) = 0 /\ KeyOf(ls[i]) # key

Distinct(s) == \A i, j \in 1..Len(s) : s[i] = s[j] => i = j

HeaderDelimiter(l) == IF Contains(LineContent(l), "|") THEN "|" ELSE ","

HeaderNames(l) == StripAll(Split(LineContent(l), HeaderDelimiter(l)))

\* lines p..q are a table block: the key line, a more-indented header of
\* distinct names, more-indented rows
TableBlock(ls, p, q) ==
    /\ 1 <= p /\ p + 1 <= q /\ q <= Len(ls)
    /\ IsKeyLine(ls[p])
    /\ IsBareLine(ls[p + 1]) /\ LineIndent(ls[p + 1]) > LineIndent(ls[p])
    /\ Distinct(HeaderNames(ls[p + 1]))
    /\ \A i \in (p + 2)..q :
           ~IsBlankLine(ls[i]) /\ LineIndent(ls[i]) > LineIndent(ls[p])

Min(a, b) == IF a <= b THEN a ELSE b

\* the record of a row: the header names, in order, each with the field at
\* its position, coerced
RowRecord(names, fields) ==
    PyDict([i \in 1..Min(Len(names), Len(fields)) |-> <<names[i], Coerce(fields[i])>>])

\* the sequence a table block stands for, one record per row in input order
TableOf(ls, p, q) ==
    PyList([r \in 1..(q - p - 1) |->
               RowRecord(HeaderNames(ls[p + 1]),
                         StripAll(Split(LineContent(ls[p + 1 + r]),
                                        HeaderDelimiter(ls[p + 1]))))])

\* C8: a 'key:' line, a more-indented header line and more-indented data
\* rows decode to a sequence under key, one record per row in input order,
\* each mapping the header names in header order to the positionally
\* matching field, coerced; loads does not raise on such a block.  The block
\* stands at the root, between 'key: value' lines of other keys.
C8_TableBlock ==
    pc \in {"raised", "done"} =>
    \A p \in 1..Len(lines) : \A q \in p..Len(lines) :
        (/\ TableBlock(lines, p, q)
         /\ LineIndent(lines[p]) = 0
         /\ RootScalars(lines, 1, p - 1, KeyOf(lines[p]))
         /\ RootScalars(lines, q + 1, Len(lines), KeyOf(lines[p])))
        => /\ pc # "raised"
           /\ pc = "done" =>
                 /\ HasKey(ret.v, KeyOf(lines[p]))
                 /\ DictGet(ret.v, KeyOf(lines[p])) = TableOf(lines, p, q)

\* C8's case: a:, 'h | g', 'P | 2', 'h | g' gave two records in row order,
\* fields under their header names, 2 an integer
C8_Witness ==
    /\ pc = "done"
    /\ TableBlock(lines, 1, 4)
    /\ ret = PyDict(<< <<<<"a">>,
                 PyList(<<PyDict(<< <<<<"h">>, PyStr(<<"P">>)>>,
                                    <<<<"g">>, PyInt(2)>> >>),
                          PyDict(<< <<<<"h">>, PyStr(<<"h">>)>>,
                                    <<<<"g">>, PyStr(<<"g">>)>> >>)>>)>> >>)

\* lines p..q are a list block: the key line and more-indented '- ' items
ListBlock(ls, p, q) ==
    /\ 1 <= p /\ p + 1 <= q /\ q <= Len(ls)
    /\ IsKeyLine(ls[p])
    /\ \A i \in (p + 1)..q : IsItemLine(ls[i]) /\ LineIndent(ls[i]) > LineIndent(ls[p])

\* the sequence a list block stands for: the item texts in input order
ListOf(ls, p, q) ==
    PyList([r \in 1..(q - p) |-> PyStr(Strip(Drop(LineContent(ls[p + r]), 2)))])

\* C9: a 'key:' line followed by more-indented '- value' lines decodes to a
\* sequence under key holding the values (the item texts) in input order:
\* at the root between 'key: value' lines, one level down under an outer
\* key, and for two sibling keys that each open a list.
C9_ScalarList ==
    pc \in {"raised", "done"} =>
    /\ \A p \in 1..Len(lines) : \A q \in p..Len(lines) :
         (/\ ListBlock(lines, p, q)
          /\ LineIndent(lines[p]) = 0
          /\ RootScalars(lines, 1, p - 1, KeyOf(lines[p]))
          /\ RootScalars(lines, q + 1, Len(lines), KeyOf(lines[p])))
         => /\ pc # "raised"
            /\ pc = "done" =>
                  /\ HasKey(ret.v, KeyOf(lines[p]))
                  /\ DictGet(ret.v, KeyOf(lines[p])) = ListOf(lines, p, q)
    /\ (/\ pc = "done"
        /\ Len(lines) >= 3
        /\ IsKeyLine(lines[1])
        /\ ListBlock(lines, 2, Len(lines))
        /\ LineIndent(lines[2]) > 0)
       => ret = PyDict(<< <<KeyOf(lines[1]),
                  PyDict(<< <<KeyOf(lines[2]), ListOf(lines, 2, Len(lines))>> >>)>> >>)
    /\ \A q \in 2..Len(lines) :
         (/\ pc = "done"
          /\ ListBlock(lines, 1, q)
          /\ ListBlock(lines, q + 1, Len(lines))
          /\ LineIndent(lines[q + 1]) = 0
          /\ KeyOf(lines[1]) # KeyOf(lines[q + 1]))
         => ret = PyDict(<< <<KeyOf(lines[1]), ListOf(lines, 1, q)>>,
                            <<KeyOf(lines[q + 1]), ListOf(lines, q + 1, Len(lines))>> >>)

\* C9's case: a:, '- r', '- 10' gave the two item texts in input order
C9_Witness ==
    /\ pc = "done"
    /\ ListBlock(lines, 1, 3)
    /\ ret = PyDict(<< <<<<"a">>,
                 PyList(<<PyStr(<<"r">>), PyStr(<<"1", "0">>)>>)>> >>)

\* C9 one level down: a:, n:, '- 10'
C9_WitnessNested ==
    /\ pc = "done"
    /\ ListBlock(lines, 2, 3)
    /\ ret = PyDict(<< <<<<"a">>,
                 PyDict(<< <<<<"n">>, PyList(<<PyStr(<<"1", "0">>)>>)>> >>)>> >>)

\* C9 for siblings: n:, '- r', a:, '- 10'
C9_WitnessSiblings ==
    /\ pc = "done"
    /\ ListBlock(lines, 1, 2) /\ ListBlock(lines, 3, 4)
    /\ ret = PyDict(<< <<<<"n">>, PyList(<<PyStr(<<"r">>)>>)>>,
                       <<<<"a">>, PyList(<<PyStr(<<"1", "0">>)>>)>> >>)


----------------------------------------------------------------------------
(* Claims about the scalar rule *)

\* the value token of the scalar line i of the text
TokenOf(i) == Drop(lines[i], Len(KeyNames[i]) + 2)

\* what the claim says a token becomes
ClaimedScalar(tok) ==
    IF Lower(tok) = <<"t", "r", "u", "e">> THEN PyBool(TRUE)
    ELSE IF Lower(tok) = <<"f", "a", "l", "s", "e">> THEN PyBool(FALSE)
    ELSE IF ~Contains(tok, ".") /\ ParseInt(tok).ok THEN PyInt(ParseInt(tok).val.v)
    ELSE IF Contains(tok, ".") /\ ParseFloat(tok).ok
         THEN PyFloat(ParseFloat(tok).val.v[1], ParseFloat(tok).val.v[2])
    ELSE PyStr(tok)

\* C10: a 'key: value' line with a value that is neither empty nor '[]'
\* stores under key the coercion of the value: 'true' and 'false' in any
\* letter case are booleans, a token without '.' that parses as an integer
\* is an integer, a token with '.' that parses as a float is a float, and
\* any other token, '1.2.3' included, stays the string it is.
C10_ScalarCoercion ==
    pc = "done" =>
        \A i \in 1..Len(lines) :
           /\ HasKey(ret.v, KeyNames[i])
           /\ LET tok == TokenOf(i)
                  got == DictGet(ret.v, KeyNames[i])
              IN  /\ got = ClaimedScalar(tok)
                  /\ tok = <<"T", "R", "U", "E">> => got = PyBool(TRUE)
                  /\ tok = <<"F", "a", "l", "s", "e">> => got = PyBool(FALSE)
                  /\ tok = <<"1", "0">> => got = PyInt(10)
                  /\ tok = <<"-", "7">> => got = PyInt(-7)
                  /\ tok = <<"2", ".", "5">> => got = PyFloat(25, 1)
                  /\ tok = <<"1", ".", "2", ".", "3">> => got = PyStr(tok)
                  /\ tok = <<"h", "e", "l", "l", "o">> => got = PyStr(tok)
                  /\ tok = <<"1", "a">> => got = PyStr(tok)

\* C10's case: 'a: 2.5' and 'b: 1.2.3' gave a float and a string
C10_Witness ==
    /\ pc = "done"
    /\ Len(lines) = 2
    /\ TokenOf(1) = <<"2", ".", "5">>
    /\ TokenOf(2) = <<"1", ".", "2", ".", "3">>
    /\ ret = PyDict(<< <<<<"a">>, PyFloat(25, 1)>>,
                       <<<<"b">>, PyStr(<<"1", ".", "2", ".", "3">>)>> >>)


----------------------------------------------------------------------------
(* Claims about indentation and the stack *)

\* the line the loop is about to process is handled by the normal rules:
\* it is not blank and is not taken as a row of an open table
NormalLine ==
    /\ pc = "loop" /\ pos <= Len(lines)
    /\ ~IsBlankLine(lines[pos])
    /\ ~(dec.in_list_mode /\ LineIndent(lines[pos]) > Top(dec.stack)[2])

\* the frames of the stack whose recorded indent is strictly less than n
OpenBelow(stack, n) == {i \in 1..Len(stack) : stack[i][2] < n}

\* the container of the nearest still-open frame for a line of indent n
Nearest(stack, n) ==
    stack[CHOOSE i \in OpenBelow(stack, n) : \A j \in OpenBelow(stack, n) : j <= i][1]

\* C11: indentation strictly encodes nesting.  A line handled by the normal
\* rules leaves on the stack, before it is processed, exactly the frames
\* whose recorded indent is strictly less than its own, and a key line is
\* stored in the container of the nearest of them.
C11_IndentEncodesNesting ==
    [][(NormalLine /\ IsColonLine(lines[pos])) =>
          /\ pc' # "raised"
          /\ dec'.heap[Nearest(dec.stack, LineIndent(lines[pos]))].t = "dict"
          /\ HasKey(dec'.heap[Nearest(dec.stack, LineIndent(lines[pos]))].v,
                    KeyOf(lines[pos]))]_vars

\* the part of C11 the code keeps: the frames closed by a line are those of
\* indent >= the line's, and a key line that is stored goes to the nearest
\* open container
IndentClosesFrames ==
    [][NormalLine =>
          LET n    == LineIndent(lines[pos])
              kept == PopStack(dec.stack, n)
          IN  /\ kept = Take(dec.stack, Len(kept))
              /\ \A i \in 1..Len(dec.stack) : (i <= Len(kept)) <=> (dec.stack[i][2] < n)
              /\ (IsColonLine(lines[pos]) /\ pc' # "raised") =>
                    /\ Top(kept)[1] = Nearest(dec.stack, n)
                    /\ HasKey(dec'.heap[Nearest(dec.stack, n)].v, KeyOf(lines[pos]))]_vars


----------------------------------------------------------------------------
(* loads on one table: a key line, a header and data rows *)

\* the most data rows of a table
MaxRows == 3

\* the header lines: two names with '|', three names with ','
HeaderPool ==
    {<<" ", " ", "h", " ", "|", " ", "g">>,
     <<" ", " ", "h", ",", " ", "g", ",", " ", "f">>}

\* the data rows: one to four fields under either delimiter, numbers,
\* a boolean, an empty last field, a row holding ':'
RowPool ==
    {<<" ", " ", "P", " ", "|", " ", "2">>,
     <<" ", " ", "q">>,
     <<" ", " ", "1", ",", " ", "x", ",", " ", "t", "r", "u", "e">>,
     <<" ", " ", "7", ",">>,
     <<" ", " ", " ", " ", "a", ":", " ", "b", " ", "|", " ", "c", " ", "|", " ", "d", " ", "|", " ", "e">>,
     <<" ", " ", "x", ",", " ", "2", ".", "5">>}

TableTexts ==
    {Join(<<<<"a", ":">>, h>> \o rows, <<"\n">>) :
        h \in HeaderPool, rows \in UNION {[1..n -> RowPool] : n \in 1..MaxRows}}

InitTable ==
    /\ text \in TableTexts
    /\ lines = << >>
    /\ pos = 0
    /\ dec = InitDec
    /\ pc = "call"
    /\ ret = PyNone
    /\ data = EmptyDict
    /\ pr = InitPr
    /\ calls = NoCalls
    /\ tracker = NoTracker

SpecTable == InitTable /\ [][NextLoads]_vars

\* the fields of data row r of the table of the text, split by the header's
\* delimiter
RowFields(r) == StripAll(Split(LineContent(lines[2 + r]), HeaderDelimiter(lines[2])))

\* C12: a data row with fewer fields than the header has names does not make
\* loads raise; its record holds exactly the leading header names that have
\* a field, each with its field coerced, and the rows before and after it
\* are decoded as rows of their own, in input order.
C12_ShortRow ==
    pc \in {"raised", "done"} =>
        /\ pc # "raised"
        /\ HasKey(ret.v, <<"a">>)
        /\ LET rows  == DictGet(ret.v, <<"a">>)
               names == HeaderNames(lines[2])
           IN  /\ rows.t = "list"
               /\ Len(rows.v) = Len(lines) - 2
               /\ \A r \in 1..Len(rows.v) :
                      LET fields == RowFields(r)
                      IN  IF Len(fields) < Len(names)
                          THEN /\ Len(rows.v[r].v) = Len(fields)
                               /\ \A i \in 1..Len(fields) :
                                      rows.v[r].v[i] = <<names[i], Coerce(fields[i])>>
                               /\ \A i \in (Len(fields) + 1)..Len(names) :
                                      ~HasKey(rows.v[r].v, names[i])
                          ELSE rows.v[r] = RowRecord(names, fields)

\* C12's case: under 'h, g, f' the rows '1, x, true', '7,' and 'x, 2.5': the
\* short row in the middle has h and g only, its neighbours are whole
C12_Witness ==
    /\ pc = "done"
    /\ Len(lines) = 5
    /\ Len(HeaderNames(lines[2])) = 3
    /\ Len(RowFields(1)) = 3 /\ Len(RowFields(2)) = 2
    /\ ret = PyDict(<< <<<<"a">>,
                 PyList(<<PyDict(<< <<<<"h">>, PyInt(1)>>,
                                    <<<<"g">>, PyStr(<<"x">>)>>,
                                    <<<<"f">>, PyBool(TRUE)>> >>),
                          PyDict(<< <<<<"h">>, PyInt(7)>>,
                                    <<<<"g">>, PyStr(<< >>)>> >>),
                          PyDict(<< <<<<"h">>, PyStr(<<"x">>)>>,
                                    <<<<"g">>, PyFloat(25, 1)>> >>)>>)>> >>)

----------------------------------------------------------------------------
(* Claims about lines that carry nothing *)

\* the locals of loads when the loop reaches line i of ls
Before(ls, i) == RunLines(InitDec, Take(ls, i - 1), 1)

\* ls without its line i
Without(ls, i) == Take(ls, i - 1) \o Drop(ls, i)

\* line i of ls is reached by the normal rules, with no ':' and no '- ', and
\* its current container is not an empty placeholder under a parent
IgnorableAt(ls, i) ==
    /\ IsBareLine(ls[i])
    /\ LET st == Before(ls, i)
           n  == LineIndent(ls[i])
       IN  /\ st.raised = "none"
           /\ ~(st.in_list_mode /\ n > Top(st.stack)[2])
           /\ LET kept == PopStack(st.stack, n)
                  cur  == st.heap[Top(kept)[1]]
              IN  ~(cur = EmptyDict /\ Len(kept) > 1)

\* C13: a line with no ':' that is no '- ' item and is not in a table-header
\* position is silently ignored: loads does not raise on it, and the result
\* is the result for the input without the line, wherever the line stands,
\* the first line included.
C13_BareLineIgnored ==
    pc \in {"raised", "done"} =>
        \A i \in 1..Len(lines) :
            IgnorableAt(lines, i) =>
                /\ ~(pc = "raised" /\ pos = i + 1)
                /\ pc = "done" =>
                       LET rest == Loads(Join(Without(lines, i), <<"\n">>))
                       IN  rest.raised = "none" /\ ret = rest.val

\* a bare first line makes loads raise
C13_RaisesOnFirstLine ==
    /\ pc = "raised" /\ pos = 2
    /\ IgnorableAt(lines, 1)

\* a bare line that closes a frame changes where the next line goes:
\* a:, n:, q, '- 10' gives {a: {n: {}}}; without q it gives {a: {n: [10]}}
C13_ChangesResult ==
    /\ pc = "done"
    /\ Len(lines) = 4
    /\ IgnorableAt(lines, 3)
    /\ ret = PyDict(<< <<<<"a">>, PyDict(<< <<<<"n">>, EmptyDict>> >>)>> >>)
    /\ Loads(Join(Without(lines, 3), <<"\n">>)).val =
           PyDict(<< <<<<"a">>,
               PyDict(<< <<<<"n">>, PyList(<<PyStr(<<"1", "0">>)>>)>> >>)>> >>)


----------------------------------------------------------------------------
(* loads on key lines: empty values, empty lists and what follows them *)

\* the longest input of key lines, in lines
MaxKeyLines == 4

\* 'key: []' at two depths, 'key:' at two depths, '- ' items at two depths,
\* a bare word and 'key: value' lines at two depths
KeyLinePool ==
    {<<"k", ":", " ", "[", "]">>,
     <<" ", " ", "k", ":", " ", "[", "]">>,
     <<"a", ":">>,
     <<" ", " ", "n", ":">>,
     <<" ", " ", "-", " ", "r">>,
     <<" ", " ", " ", " ", "-", " ", "1", "0">>,
     <<" ", " ", "q">>,
     <<" ", " ", "c", ":", " ", "x">>,
     <<"b", ":", " ", "1">>}

KeyLineTexts ==
    {Join(ls, <<"\n">>) : ls \in UNION {[1..n -> KeyLinePool] : n \in 1..MaxKeyLines}}

InitKeyLines ==
    /\ text \in KeyLineTexts
    /\ lines = << >>
    /\ pos = 0
    /\ dec = InitDec
    /\ pc = "call"
    /\ ret = PyNone
    /\ data = EmptyDict
    /\ pr = InitPr
    /\ calls = NoCalls
    /\ tracker = NoTracker

SpecKeyLines == InitKeyLines /\ [][NextLoads]_vars

\* the line is 'key: []'
IsEmptyListLine(l) == IsColonLine(l) /\ ValueOf(l) = <<"[", "]">>

\* the container a line of indent n is processed against, from the stack
\* the loop holds when it reaches the line
CurrentContainer(stack, n) == Top(PopStack(stack, n))[1]

\* the step of C14: a 'key: []' line processed against a mapping stores an
\* empty sequence under key in that mapping and pushes no stack frame.
C14_EmptyListStored ==
    [][(/\ NormalLine
        /\ IsEmptyListLine(lines[pos])
        /\ dec.heap[CurrentContainer(dec.stack, LineIndent(lines[pos]))].t = "dict")
       => LET n   == LineIndent(lines[pos])
              cur == CurrentContainer(dec.stack, n)
          IN  /\ pc' = "loop"
              /\ dec'.stack = PopStack(dec.stack, n)
              /\ Len(dec'.heap) = Len(dec.heap)
              /\ HasKey(dec'.heap[cur].v, KeyOf(lines[pos]))
              /\ DictGet(dec'.heap[cur].v, KeyOf(lines[pos])) = PyList(<< >>)]_vars

\* no line after line p of ls has the key of line p
KeyNotRepeated(ls, p) ==
    \A q \in (p + 1)..Len(ls) : IsColonLine(ls[q]) => KeyOf(ls[q]) # KeyOf(ls[p])

\* the lines that follow in C14: whatever follows a 'key: []' line, at a
\* greater indent or not, the sequence under key is still empty when loads
\* returns (the key not being given again), and the line after it, when more
\* indented, is processed against the container that holds key.
C14_EmptyListStaysEmpty ==
    pc = "done" =>
        \A p \in 1..Len(lines) :
            LET st  == Before(lines, p)
                n   == LineIndent(lines[p])
                cur == CurrentContainer(st.stack, n)
            IN  (/\ IsEmptyListLine(lines[p])
                 /\ ~(st.in_list_mode /\ n > Top(st.stack)[2]))
                => /\ KeyNotRepeated(lines, p) =>
                          /\ dec.heap[cur].t = "dict"
                          /\ HasKey(dec.heap[cur].v, KeyOf(lines[p]))
                          /\ DictGet(dec.heap[cur].v, KeyOf(lines[p])) = PyList(<< >>)
                   /\ (p < Len(lines) /\ LineIndent(lines[p + 1]) > n) =>
                          CurrentContainer(Before(lines, p + 1).stack,
                                           LineIndent(lines[p + 1])) = cur

\* C14: a line 'key: []' stores an empty ordered sequence under key and
\* pushes no stack frame; the lines that follow it at a greater indent are
\* processed against the container that holds key and are never added to
\* the empty sequence.
C14_EmptyList == C14_EmptyListStored /\ []C14_EmptyListStaysEmpty

\* C14's case: 'k: []' then the more indented '- r' and 'c: x': the item is
\* dropped, c goes to the root next to k, k is still empty
C14_Witness ==
    /\ pc = "done"
    /\ Len(lines) = 3
    /\ IsEmptyListLine(lines[1])
    /\ IsItemLine(lines[2]) /\ LineIndent(lines[2]) = 2
    /\ ret = PyDict(<< <<<<"k">>, PyList(<< >>)>>, <<<<"c">>, PyStr(<<"x">>)>> >>)

\* the first non-blank line after line p of ls, or 0
NextLine(ls, p) ==
    LET later == {q \in (p + 1)..Len(ls) : ~IsBlankLine(ls[q])}
    IN  IF later = {} THEN 0 ELSE CHOOSE q \in later : \A r \in later : q <= r

\* line p of ls is never followed by a more-indented '- ' line or a
\* more-indented colon-less line
NoItemOrBareBelow(ls, p) ==
    \A q \in (p + 1)..Len(ls) :
        (IsItemLine(ls[q]) \/ IsBareLine(ls[q])) => LineIndent(ls[q]) <= LineIndent(ls[p])

\* C15: a key declared with an empty value that is never followed by a
\* more-indented '- ' line or a more-indented colon-less line is never
\* converted to a list or a table: when loads returns, the key (if not given
\* again) holds in its container the mapping that was opened for it, and
\* that mapping is empty when the input ends at the key line or continues
\* with a line at the same or a smaller indent.
C15_EmptyValueStaysMapping ==
    pc = "done" =>
        \A p \in 1..Len(lines) :
            LET st  == Before(lines, p)
                n   == LineIndent(lines[p])
                cur == CurrentContainer(st.stack, n)
                obj == Len(st.heap) + 1
                nxt == NextLine(lines, p)
            IN  (/\ IsColonLine(lines[p]) /\ ValueOf(lines[p]) = << >>
                 /\ ~(st.in_list_mode /\ n > Top(st.stack)[2])
                 /\ NoItemOrBareBelow(lines, p)
                 /\ KeyNotRepeated(lines, p))
                => /\ HasKey(dec.heap[cur].v, KeyOf(lines[p]))
                   /\ DictGet(dec.heap[cur].v, KeyOf(lines[p])) = Ref(obj)
                   /\ dec.heap[obj].t = "dict"
                   /\ (nxt = 0 \/ LineIndent(lines[IF nxt = 0 THEN p ELSE nxt]) <= n)
                          => dec.heap[obj] = EmptyDict

\* C15's case: a:, n:, then '- r' and 'q' at the indent of n: n is still
\* an empty mapping
C15_Witness ==
    /\ pc = "done"
    /\ Len(lines) = 4
    /\ IsKeyLine(lines[2]) /\ LineIndent(lines[2]) = 2
    /\ IsItemLine(lines[3]) /\ LineIndent(lines[3]) = 2
    /\ IsBareLine(lines[4]) /\ LineIndent(lines[4]) = 2
    /\ ret = PyDict(<< <<<<"a">>, PyDict(<< <<<<"n">>, EmptyDict>> >>)>> >>)

\* C15 at the end of the input and before a dedent: a:, n:, b: 1
C15_WitnessDedent ==
    /\ pc = "done"
    /\ ret = PyDict(<< <<<<"a">>, PyDict(<< <<<<"n">>, EmptyDict>> >>)>>,
                       <<<<"b">>, PyInt(1)>> >>)


----------------------------------------------------------------------------
(* dumps on oddly structured mappings *)

\* values of odd structure: lists that mix mappings with scalars or lists,
\* lists of mappings with differing keys, lists of lists, an odd list inside
\* a nested mapping, and plain values
OddValuePool ==
    {PyList(<<PyDict(<<<<<<"h">>, PyInt(1)>>>>), PyStr(<<"r">>)>>),
     PyList(<<PyDict(<<<<<<"h">>, PyInt(1)>>>>), PyList(<<PyStr(<<"r">>)>>)>>),
     PyList(<<PyDict(<<<<<<"h">>, PyInt(1)>>>>), PyDict(<<<<<<"g">>, PyInt(2)>>>>)>>),
     PyList(<<PyDict(<<<<<<"h">>, PyInt(1)>>, <<<<"g">>, PyStr(<<"x">>)>>>>), PyDict(<<<<<<"g">>, PyInt(2)>>>>)>>),
     PyList(<<PyStr(<<"r">>), PyDict(<<<<<<"h">>, PyInt(1)>>>>)>>),
     PyList(<<PyList(<<PyStr(<<"r">>)>>), PyList(<<PyInt(7)>>)>>),
     PyDict(<<<<<<"c">>, PyList(<<PyDict(<<<<<<"h">>, PyInt(1)>>>>), PyInt(7)>>)>>>>),
     PyDict(<<<<<<"c">>, PyList(<<>>)>>>>),
     PyList(<<>>),
     PyInt(7),
     PyList(<<PyDict(<<<<<<"h">>, PyList(<<PyInt(1)>>)>>>>)>>)}

OddMappings ==
    UNION {{PyDict([i \in 1..n |-> <<KeyNames[i], f[i]>>]) :
               f \in [1..n -> OddValuePool]} : n \in 1..MaxKeys}

InitDumps ==
    /\ data \in OddMappings
    /\ text = << >>
    /\ lines = << >>
    /\ pos = 0
    /\ dec = InitDec
    /\ pc = "dumps"
    /\ ret = PyNone
    /\ pr = InitPr
    /\ calls = NoCalls
    /\ tracker = NoTracker

SpecDumps == InitDumps /\ [][NextRound]_vars

\* dumps raised: the call ended before any text was returned
DumpsRaised == pc = "raised" /\ pos = 0

\* C16: dumps never raises for a mapping built from mappings, sequences and
\* scalars, a sequence whose first element is a mapping and whose later
\* elements are scalars or sequences included, and sequences of mappings
\* with differing keys.
C16_DumpsNeverRaises == ~DumpsRaised

\* the part of C16 the code keeps: mappings with differing keys in one
\* sequence do not make dumps raise
DiffKeysDumped ==
    /\ pc = "call"
    /\ data = PyDict(<< <<<<"a">>, PyList(<<PyDict(<<<<<<"h">>, PyInt(1)>>, <<<<"g">>, PyStr(<<"x">>)>>>>), PyDict(<<<<<<"g">>, PyInt(2)>>>>)>>)>> >>)


----------------------------------------------------------------------------
(* loads called by several callers at once *)

\* the number of concurrent invocations of loads
MaxCalls == 2

\* the inputs of the concurrent invocations: a table, a list, a nested
\* mapping, a scalar, two inputs that make loads raise, the empty string and
\* an empty list followed by an item
ConcTexts ==
    {<<"a", ":", "\n", " ", " ", "h", " ", "|", " ", "g", "\n", " ", " ", "P", " ", "|", " ", "2">>,
     <<"a", ":", "\n", " ", " ", "-", " ", "r", "\n", " ", " ", "-", " ", "1", "0">>,
     <<"a", ":", "\n", " ", " ", "c", ":", " ", "x", "\n", "b", ":", " ", "1">>,
     <<"b", ":", " ", "1">>,
     <<"q">>,
     << >>,
     <<"a", ":", "\n", " ", " ", "-", " ", "r", "\n", " ", " ", "c", ":", " ", "x">>,
     <<"k", ":", " ", "[", "]", "\n", " ", " ", "-", " ", "r">>}

\* a mutant of Locals: the stack, the table mode and the result are kept at
\* module level, one copy for all the callers
SharedLocals(i) == 1

\* the locals of invocation i (lines 14-21 create them in the call's own
\* frame; toon.py has no module-level state)
Locals(i) == i

InitConc ==
    /\ calls \in {[inv    |-> [i \in 1..MaxCalls |->
                                 [text |-> t[i], lines |-> << >>, pos |-> 0,
                                  pc |-> "call", ret |-> PyNone, raised |-> "none"]],
                   locals |-> [i \in 1..MaxCalls |-> InitDec]] :
                     t \in [1..MaxCalls -> ConcTexts]}
    /\ text = << >>
    /\ lines = << >>
    /\ pos = 0
    /\ dec = InitDec
    /\ pc = "concurrent"
    /\ ret = PyNone
    /\ data = EmptyDict
    /\ pr = InitPr
    /\ tracker = NoTracker

\* lines 13-21 of invocation i
ConcStart(i) ==
    /\ calls.inv[i].pc = "call"
    /\ calls' = [calls EXCEPT
                    !.inv[i].lines = SplitLines(calls.inv[i].text),
                    !.inv[i].pos = 1,
                    !.inv[i].pc = "loop",
                    !.locals[Locals(i)] = InitDec]
    /\ UNCHANGED <<text, lines, pos, dec, pc, ret, data, pr, tracker>>

\* one iteration of the loop of invocation i; an exception ends the call
ConcLine(i) ==
    /\ calls.inv[i].pc = "loop"
    /\ calls.inv[i].pos <= Len(calls.inv[i].lines)
    /\ LET st == LineStep(calls.locals[Locals(i)], calls.inv[i].lines[calls.inv[i].pos])
       IN  calls' = IF st.raised # "none"
                    THEN [calls EXCEPT !.inv[i].pc = "raised",
                                       !.inv[i].raised = st.raised]
                    ELSE [calls EXCEPT !.inv[i].pos = @ + 1,
                                       !.locals[Locals(i)] = st]
    /\ UNCHANGED <<text, lines, pos, dec, pc, ret, data, pr, tracker>>

\* lines 171-178 of invocation i
ConcReturn(i) ==
    /\ calls.inv[i].pc = "loop"
    /\ calls.inv[i].pos > Len(calls.inv[i].lines)
    /\ LET st == Cleanup(calls.locals[Locals(i)])
       IN  calls' = IF st.raised # "none"
                    THEN [calls EXCEPT !.inv[i].pc = "raised",
                                       !.inv[i].raised = st.raised]
                    ELSE [calls EXCEPT !.inv[i].pc = "done",
                                       !.inv[i].ret = Result(st),
                                       !.locals[Locals(i)] = st]
    /\ UNCHANGED <<text, lines, pos, dec, pc, ret, data, pr, tracker>>

NextConc == \E i \in 1..MaxCalls : ConcStart(i) \/ ConcLine(i) \/ ConcReturn(i)

SpecConc == InitConc /\ [][NextConc]_vars

C17_WitnessSameText ==
    /\ pc = "concurrent"
    /\ calls.inv[1].text = calls.inv[2].text
    /\ calls.inv[1].pc = "done" /\ calls.inv[2].pc = "done"
    /\ calls.inv[1].ret = PyDict(<<<<<<"a">>, PyList(<<PyStr(<<"r">>), PyStr(<<"1", "0">>)>>)>>>>)
    /\ calls.inv[2].ret = calls.inv[1].ret


----------------------------------------------------------------------------
(* loads on inputs with blank lines *)

\* the longest input with blank lines, in lines
MaxBlankLines == 4

\* the empty line, a line of spaces, and lines that open a list, a table
\* and a nested mapping
BlankLinePool ==
    {<< >>,
     <<" ", " ", " ">>,
     <<"a", ":">>,
     <<" ", " ", "-", " ", "r">>,
     <<" ", " ", "h", " ", "|", " ", "g">>,
     <<" ", " ", "P", " ", "|", " ", "2">>,
     <<"b", ":", " ", "1">>,
     <<" ", " ", "c", ":", " ", "x">>}

BlankTexts ==
    {Join(ls, <<"\n">>) : ls \in UNION {[1..n -> BlankLinePool] : n \in 1..MaxBlankLines}}

InitBlank ==
    /\ text \in BlankTexts
    /\ lines = << >>
    /\ pos = 0
    /\ dec = InitDec
    /\ pc = "call"
    /\ ret = PyNone
    /\ data = EmptyDict
    /\ pr = InitPr
    /\ calls = NoCalls
    /\ tracker = NoTracker

SpecBlank == InitBlank /\ [][NextLoads]_vars

NotBlank(l) == ~IsBlankLine(l)

\* txt with its blank lines removed
WithoutBlanks(txt) == Join(SelectSeq(Split(txt, "\n"), NotBlank), <<"\n">>)

\* txt is made only of spaces and newlines
OnlySpace(txt) == \A i \in 1..Len(txt) : txt[i] \in {" ", "\n"}

\* the step of C18: a blank line changes none of the locals of loads, the
\* stack and the table mode included
C18_BlankStep ==
    [][(pc = "loop" /\ pos <= Len(lines) /\ IsBlankLine(lines[pos]))
          => (dec' = dec /\ pc' = "loop")]_vars

\* the results of C18: a string of spaces and newlines gives the empty
\* mapping, and any input gives what the input without its blank lines gives
C18_BlankResult ==
    pc \in {"raised", "done"} =>
        LET rest == Loads(WithoutBlanks(text))
        IN  /\ OnlySpace(text) => (pc = "done" /\ ret = EmptyDict)
            /\ pc = "done" => (rest.raised = "none" /\ ret = rest.val)
            /\ pc = "raised" => rest.raised = dec.raised

\* C18: loads of the empty string and of any string made only of spaces and
\* newlines returns the empty mapping, and blank lines anywhere in an input
\* change neither the stack nor the result: removing them yields the same
\* result.
C18_BlankLines == C18_BlankStep /\ []C18_BlankResult

\* C18's case: a:, a line of spaces, an empty line, '- r': the list is read
\* across the blank lines
C18_Witness ==
    /\ pc = "done"
    /\ Len(lines) = 4
    /\ lines[2] = <<" ", " ", " ">> /\ lines[3] = << >>
    /\ ret = PyDict(<< <<<<"a">>, PyList(<<PyStr(<<"r">>)>>)>> >>)

\* C18 on a string of spaces and newlines
C18_WitnessOnlySpace ==
    /\ pc = "done"
    /\ Len(text) > 3 /\ OnlySpace(text)
    /\ ret = EmptyDict


----------------------------------------------------------------------------
(* validate_toon_string *)

PyTuple(elems) == [t |-> "tuple", v |-> elems]

\* str(e) of the exceptions loads raises
ExcStr(exc) ==
    CASE exc = "IndexError"     -> <<"l", "i", "s", "t", " ", "i", "n", "d", "e", "x", " ", "o", "u", "t", " ", "o", "f", " ", "r", "a", "n", "g", "e">>
      [] exc = "TypeError"      -> <<"l", "i", "s", "t", " ", "i", "n", "d", "i", "c", "e", "s", " ", "m", "u", "s", "t", " ", "b", "e", " ", "i", "n", "t", "e", "g", "e", "r", "s", " ", "o", "r", " ", "s", "l", "i", "c", "e", "s", ",", " ", "n", "o", "t", " ", "s", "t", "r">>
      [] exc = "AttributeError" -> <<"'", "l", "i", "s", "t", "'", " ", "o", "b", "j", "e", "c", "t", " ", "h", "a", "s", " ", "n", "o", " ", "a", "t", "t", "r", "i", "b", "u", "t", "e", " ", "'", "i", "t", "e", "m", "s", "'">>

\* lines 19-23: the content of the fenced toon block when the text holds the
\* fence tag and the pattern matches, the text itself otherwise
Content(txt) ==
    LET m == FencedBlock(txt, ToonTag)
    IN  IF Find(txt, Fence \o ToonTag, 1) # 0 /\ m.found THEN m.group ELSE txt

\* line 28
Success(d) == PyTuple(<<d, PyNone>>)

\* line 27
NotADict == PyTuple(<<PyNone, PyStr(<<"T", "O", "O", "N", " ", "c", "o", "n", "t", "e", "n", "t", " ", "m", "u", "s", "t", " ", "b", "e", " ", "a", " ", "d", "i", "c", "t", "i", "o", "n", "a", "r", "y", "/", "o", "b", "j", "e", "c", "t">>)>>)

\* a mutant of Failure: the empty mapping is returned next to the message
FailureWithData(exc) ==
    PyTuple(<<EmptyDict, PyStr(<<"I", "n", "v", "a", "l", "i", "d", " ", "T", "O", "O", "N", " ", "f", "o", "r", "m", "a", "t", ":", " ">> \o ExcStr(exc))>>)

\* line 30
Failure(exc) ==
    PyTuple(<<PyNone, PyStr(<<"I", "n", "v", "a", "l", "i", "d", " ", "T", "O", "O", "N", " ", "f", "o", "r", "m", "a", "t", ":", " ">> \o ExcStr(exc))>>)

\* responses with a fence tag that no pattern matches
UnclosedTexts ==
    {<<Backtick, Backtick, Backtick, "t", "o", "o", "n", "\n", "x", ":", " ", "1">>,
     <<"a", ":", " ", Backtick, Backtick, Backtick, "t", "o", "o", "n">>}

ValidateTexts == ResponseTexts \cup UnclosedTexts

InitValidate ==
    /\ text \in ValidateTexts
    /\ lines = << >>
    /\ pos = 0
    /\ dec = InitDec
    /\ pc = "vt_call"
    /\ ret = PyNone
    /\ data = EmptyDict
    /\ pr = InitPr
    /\ calls = NoCalls
    /\ tracker = NoTracker

\* lines 17-23: enter the try block; the text to decode is Content(text)
ValidateStart ==
    /\ pc = "vt_call"
    /\ pc' = "vt_loads"
    /\ UNCHANGED <<text, lines, pos, dec, ret, data, pr, calls, tracker>>

\* lines 25-30: decode, check the type, return the pair
ValidateLoads ==
    /\ pc = "vt_loads"
    /\ LET r == Loads(Content(text))
       IN  IF r.raised # "none"
           THEN IF Caught(r.raised)
                THEN pc' = "done" /\ ret' = Failure(r.raised)
                ELSE pc' = "raised" /\ UNCHANGED ret
           ELSE /\ pc' = "done"
                /\ ret' = IF r.val.t # "dict" THEN NotADict ELSE Success(r.val)
    /\ UNCHANGED <<text, lines, pos, dec, data, pr, calls, tracker>>

NextValidate == ValidateStart \/ ValidateLoads

SpecValidate == InitValidate /\ [][NextValidate]_vars

\* the text the claim says is decoded: the content of the fenced toon block
\* when one is present, the whole text otherwise
Decoded == IF FencedBlock(text, ToonTag).found
           THEN FencedBlock(text, ToonTag).group ELSE text

\* C19: validate_toon_string never raises and returns a pair in which
\* exactly one component is None: (the parsed dictionary, None) when the
\* text, or the content of its fenced toon block, decodes, and (None, an
\* error message) when decoding raises; the data is never a non-dictionary.
C19_ValidatePair ==
    /\ pc # "raised"
    /\ pc = "done" =>
           /\ ret.t = "tuple" /\ Len(ret.v) = 2
           /\ (ret.v[1] = PyNone) # (ret.v[2] = PyNone)
           /\ ret.v[1] # PyNone => ret.v[1].t = "dict"
           /\ LET r == Loads(Decoded)
              IN  IF r.raised = "none"
                  THEN ret = PyTuple(<<r.val, PyNone>>)
                  ELSE ret.v[1] = PyNone /\ ret.v[2].t = "str" /\ Len(ret.v[2].v) > 0

\* C19's case: a fenced toon block holding 'x: 1' came back as data
C19_Witness ==
    /\ pc = "done"
    /\ FencedBlock(text, ToonTag).found
    /\ ret = PyTuple(<<PyDict(<< <<<<"x">>, PyInt(1)>> >>), PyNone>>)

\* C19 when decoding raises: the data is None and the message is set
C19_WitnessError ==
    /\ pc = "done"
    /\ Loads(Decoded).raised = "IndexError"
    /\ ret = PyTuple(<<PyNone, PyStr(<<"I", "n", "v", "a", "l", "i", "d", " ", "T", "O", "O", "N", " ", "f", "o", "r", "m", "a", "t", ":", " ">> \o ExcStr("IndexError"))>>)


----------------------------------------------------------------------------
(* loads on a table and the lines that end it *)

\* the most lines that follow the header of the table
MaxTail == 3

\* the lines that open a table: under a key of the root, and under a key of
\* a nested mapping
TableHeads ==
    {<<<<"a", ":">>, <<" ", " ", "h", " ", "|", " ", "g">>>>,
     <<<<"a", ":">>, <<" ", " ", "n", ":">>, <<" ", " ", " ", " ", "h", " ", "|", " ", "g">>>>}

\* the lines that follow: rows at two depths, a row holding ':', key lines
\* and a '- ' item at the indent of a nested key, lines of the root with and
\* without ':', a key line that opens a container again, the blank line
TailPool ==
    {<<" ", " ", " ", " ", "P", " ", "|", " ", "2">>,
     <<" ", " ", " ", " ", " ", " ", "x", " ", "|", " ", "y">>,
     <<" ", " ", "c", ":", " ", "x">>,
     <<"b", ":", " ", "1">>,
     << >>,
     <<" ", " ", "-", " ", "r">>,
     <<"q">>,
     <<" ", " ", " ", " ", "d", ":", " ", "4">>,
     <<" ", " ", "n", ":">>}

TableEndTexts ==
    {Join(h \o tl, <<"\n">>) :
        h \in TableHeads, tl \in UNION {[1..n -> TailPool] : n \in 0..MaxTail}}

InitTableEnd ==
    /\ text \in TableEndTexts
    /\ lines = << >>
    /\ pos = 0
    /\ dec = InitDec
    /\ pc = "call"
    /\ ret = PyNone
    /\ data = EmptyDict
    /\ pr = InitPr
    /\ calls = NoCalls
    /\ tracker = NoTracker

\* a step of a running call, seen on the loop index and the position alone:
\* every step of NextLoads is one, and one is possible while the call runs
LoadsProgress ==
    /\ pc \in {"call", "loop"}
    /\ pos' \in {pos, pos + 1}
    /\ pc' \in {"loop", "done", "raised"}

\* the for loop goes on to the next line and the call runs to its return
SpecTableEnd == InitTableEnd /\ [][NextLoads]_vars /\ WF_<<pos, pc>>(LoadsProgress)

\* a table is open: the loop is in table mode
TableOpen == pc = "loop" /\ dec.in_list_mode

\* line k of the input was processed as a key line with an empty value
ProcessedAsKey(k) ==
    /\ IsColonLine(lines[k]) /\ ValueOf(lines[k]) = << >>
    /\ LET st == Before(lines, k)
       IN  ~(st.in_list_mode /\ LineIndent(lines[k]) > Top(st.stack)[2])

\* the key line that owns the open table: the last line processed as a key
\* line (the header and the rows come after it)
Owner == CHOOSE k \in 1..(pos - 1) :
             /\ ProcessedAsKey(k)
             /\ \A j \in (k + 1)..(pos - 1) : ~ProcessedAsKey(j)

\* the locals once the rows of the open table are under its key in the
\* mapping that holds the key, and table mode is over
RowsStored ==
    [dec EXCEPT
        !.heap[Below(dec.stack)[1]] =
            PyDict(DictSet(@.v, KeyOf(lines[Owner]), PyList(dec.current_list))),
        !.in_list_mode = FALSE,
        !.current_list_key = None,
        !.current_list = << >>,
        !.current_list_headers = << >>]

\* the placeholder of the open table is under the table's key in the
\* mapping of the frame below it
PlaceholderUnderKey ==
    LET holder == dec.heap[Below(dec.stack)[1]]
    IN  /\ Len(dec.stack) > 1
        /\ holder.t = "dict"
        /\ HasKey(holder.v, KeyOf(lines[Owner]))
        /\ DictGet(holder.v, KeyOf(lines[Owner])) = Ref(Top(dec.stack)[1])

\* a non-blank line met in table mode: when its indent is <= the indent of
\* the owning key line the rows replace the placeholder and the line is then
\* processed by the normal rules; otherwise it is one more row
C20_EndStep ==
    [][(TableOpen /\ pos <= Len(lines) /\ ~IsBlankLine(lines[pos])) =>
          /\ PlaceholderUnderKey
          /\ IF LineIndent(lines[pos]) <= LineIndent(lines[Owner])
             THEN /\ pc' = "loop"
                  /\ dec' = LineStep(RowsStored, lines[pos])
                  /\ Len(RowsStored.heap[Below(dec.stack)[1]].v) =
                         Len(dec.heap[Below(dec.stack)[1]].v)
             ELSE /\ pc' = "loop"
                  /\ dec'.in_list_mode
                  /\ Len(dec'.current_list) = Len(dec.current_list) + 1
                  /\ dec'.heap = dec.heap /\ dec'.stack = dec.stack]_vars

\* the input ends in table mode: the rows replace the placeholder and loads
\* returns
C20_EndOfInput ==
    [][(TableOpen /\ pos > Len(lines)) =>
          /\ PlaceholderUnderKey
          /\ pc' = "done"
          /\ dec'.heap = RowsStored.heap
          /\ ret' = Deref(RowsStored.heap, Ref(1))]_vars

\* an open table does not stay open
C20_Eventually == TableOpen ~> (~dec.in_list_mode \/ pc = "done")

\* C20: every table that was opened is eventually stored.  Table mode ends
\* at the first non-blank line whose indent is <= the indent of the key line
\* that owns the table, or at the end of the input; at that moment the rows
\* replace the placeholder under the table's key in the mapping of the frame
\* below the placeholder, and the line that ended the table is then
\* processed by the normal rules, neither lost nor added as a row.
C20_TableStored == C20_EndStep /\ C20_EndOfInput /\ C20_Eventually

\* C20's case: the table under a, n was ended by 'c: x' at the indent of n:
\* the row is under n, and c is in the mapping that holds n
C20_Witness ==
    /\ pc = "done"
    /\ Len(lines) = 5
    /\ ~dec.in_list_mode
    /\ ret = PyDict(<< <<<<"a">>,
                 PyDict(<< <<<<"n">>,
                             PyList(<<PyDict(<< <<<<"h">>, PyStr(<<"P">>)>>,
                                                <<<<"g">>, PyInt(2)>> >>)>>)>>,
                           <<<<"c">>, PyStr(<<"x">>)>> >>)>> >>)

\* C20 at the end of the input: the table under a was stored by the return
C20_WitnessEndOfInput ==
    /\ pc = "done"
    /\ dec.in_list_mode
    /\ Len(lines) = 3
    /\ ret = PyDict(<< <<<<"a">>,
                 PyList(<<PyDict(<< <<<<"h">>, PyStr(<<"P">>)>>,
                                    <<<<"g">>, PyInt(2)>> >>)>>)>> >>)


----------------------------------------------------------------------------
(* loads on a table with blank lines among its rows *)

\* the most lines that follow the header of the table
MaxGapLines == 4

\* the headers of the table: with '|' and with ','
GapHeaders ==
    {<<" ", " ", "h", " ", "|", " ", "g">>,
     <<" ", " ", "h", ",", " ", "g">>}

\* the lines under the header: two rows, the empty line, lines of spaces
\* shorter and longer than the rows' indent, and a line of the root
GapLinePool ==
    {<<" ", " ", "P", " ", "|", " ", "2">>,
     <<" ", " ", "1", ",", " ", "x">>,
     << >>,
     <<" ">>,
     <<" ", " ", " ", " ", " ", " ">>,
     <<"b", ":", " ", "1">>}

GapTexts ==
    {Join(<<<<"a", ":">>, h>> \o ls, <<"\n">>) :
        h \in GapHeaders, ls \in UNION {[1..n -> GapLinePool] : n \in 1..MaxGapLines}}

InitGap ==
    /\ text \in GapTexts
    /\ lines = << >>
    /\ pos = 0
    /\ dec = InitDec
    /\ pc = "call"
    /\ ret = PyNone
    /\ data = EmptyDict
    /\ pr = InitPr
    /\ calls = NoCalls
    /\ tracker = NoTracker

SpecGap == InitGap /\ [][NextLoads]_vars

\* a blank line stands between the header of the table (line 2) and line p
BlankSinceHeader(ls, p) == \E q \in 3..(p - 1) : IsBlankLine(ls[q])

\* the step of C21: a blank line met in table mode leaves the table open and
\* every local unchanged, and a more-indented line after it is one more row
\* of the same table
C21_BlankKeepsTable ==
    [][(TableOpen /\ pos <= Len(lines)) =>
          /\ IsBlankLine(lines[pos]) => (pc' = "loop" /\ dec' = dec)
          /\ (/\ ~IsBlankLine(lines[pos])
              /\ LineIndent(lines[pos]) > 0
              /\ BlankSinceHeader(lines, pos))
             => /\ pc' = "loop"
                /\ dec'.in_list_mode
                /\ dec'.current_list_key = dec.current_list_key
                /\ dec'.current_list =
                       Append(dec.current_list,
                              RowRecord(HeaderNames(lines[2]),
                                  StripAll(Split(LineContent(lines[pos]),
                                                 HeaderDelimiter(lines[2])))))]_vars

\* the lines of ls from line p on, up to the first non-blank line that is
\* not more indented than the key line of the table
RECURSIVE RowsFrom(_, _)
RowsFrom(ls, p) ==
    IF p > Len(ls) THEN << >>
    ELSE IF IsBlankLine(ls[p]) THEN RowsFrom(ls, p + 1)
    ELSE IF LineIndent(ls[p]) <= 0 THEN << >>
    ELSE <<ls[p]>> \o RowsFrom(ls, p + 1)

\* the table the rows under the header stand for, blank lines set aside
GapTable(ls) ==
    LET rows == RowsFrom(ls, 3)
    IN  PyList([r \in 1..Len(rows) |->
                   RowRecord(HeaderNames(ls[2]),
                             StripAll(Split(LineContent(rows[r]),
                                            HeaderDelimiter(ls[2]))))])

\* the result of C21: the table under the key holds every row up to the
\* line that closes it, the rows after a blank line included, and the result
\* is the one of the input with its blank lines removed
C21_SameTable ==
    pc \in {"raised", "done"} =>
        /\ pc = "done"
        /\ HasKey(ret.v, <<"a">>)
        /\ DictGet(ret.v, <<"a">>) = GapTable(lines)
        /\ LET rest == Loads(WithoutBlanks(text))
           IN  rest.raised = "none" /\ ret = rest.val

\* C21: blank and whitespace-only lines inside a table block do not close
\* the table: rows that follow such a line at the table's indent are still
\* appended to the same table, and the decoded table equals the one decoded
\* from the input with the blank lines removed.
C21_BlankInTable == C21_BlankKeepsTable /\ []C21_SameTable

\* C21's case: a row, an empty line, a line of six spaces, a row: both rows
\* are in the table
C21_Witness ==
    /\ pc = "done"
    /\ Len(lines) = 6
    /\ lines[4] = << >> /\ lines[5] = <<" ", " ", " ", " ", " ", " ">>
    /\ ret = PyDict(<< <<<<"a">>,
                 PyList(<<PyDict(<< <<<<"h">>, PyStr(<<"P">>)>>,
                                    <<<<"g">>, PyInt(2)>> >>),
                          PyDict(<< <<<<"h">>, PyStr(<<"1", ",", " ", "x">>)>> >>)>>)>> >>)


----------------------------------------------------------------------------
(* loads on two tables, one after the other *)

\* the most data rows of each of the two tables
MaxDelimRows == 2

\* the headers: two names with '|', two names with ',', one name
DelimHeaders ==
    {<<" ", " ", "h", " ", "|", " ", "g">>,
     <<" ", " ", "h", ",", " ", "g">>,
     <<" ", " ", "h">>}

\* the rows: fields with '|', fields with ',', and a row that holds both
DelimRows ==
    {<<" ", " ", "P", " ", "|", " ", "2">>,
     <<" ", " ", "1", ",", " ", "x">>,
     <<" ", " ", "u", "|", "v", ",", " ", "w">>}

DelimTables(key) ==
    {<<key, h>> \o rows :
        h \in DelimHeaders, rows \in UNION {[1..n -> DelimRows] : n \in 1..MaxDelimRows}}

TwoTableTexts ==
    {Join(t1 \o t2, <<"\n">>) : t1 \in DelimTables(<<"a", ":">>), t2 \in DelimTables(<<"b", ":">>)}

InitTwoTables ==
    /\ text \in TwoTableTexts
    /\ lines = << >>
    /\ pos = 0
    /\ dec = InitDec
    /\ pc = "call"
    /\ ret = PyNone
    /\ data = EmptyDict
    /\ pr = InitPr
    /\ calls = NoCalls
    /\ tracker = NoTracker

SpecTwoTables == InitTwoTables /\ [][NextLoads]_vars

\* the key line of the second table
SecondKey(ls) == CHOOSE k \in 1..Len(ls) : ls[k] = <<"b", ":">>

\* the header line of the table that line p of ls is a row of
HeaderAbove(ls, p) == IF p > SecondKey(ls) THEN SecondKey(ls) + 1 ELSE 2

\* the steps of C22: a header line sets the delimiter from its own content,
\* whatever the delimiter was, and a row leaves it as its header set it
C22_ChosenOnce ==
    [][(pc = "loop" /\ pos <= Len(lines)) =>
          /\ (~dec.in_list_mode /\ dec'.in_list_mode) =>
                 /\ dec'.current_list_delimiter =
                        (IF Contains(lines[pos], "|") THEN "|" ELSE ",")
                 /\ dec'.current_list_headers =
                        StripAll(Split(LineContent(lines[pos]), dec'.current_list_delimiter))
          /\ (dec.in_list_mode /\ LineIndent(lines[pos]) > 0) =>
                 /\ dec'.current_list_delimiter = dec.current_list_delimiter
                 /\ dec.current_list_delimiter = HeaderDelimiter(lines[HeaderAbove(lines, pos)])
                 /\ dec'.current_list_headers = dec.current_list_headers]_vars

\* the result of C22: each table holds the records of its rows split by the
\* delimiter of its own header
C22_OwnDelimiter ==
    pc \in {"raised", "done"} =>
        /\ pc = "done"
        /\ LET k == SecondKey(lines)
           IN  ret = PyDict(<< <<<<"a">>, TableOf(lines, 1, k - 1)>>,
                               <<<<"b">>, TableOf(lines, k, Len(lines))>> >>)

\* C22: the table delimiter is chosen once per table from its header line
\* only ('|' when the header contains '|', otherwise ',') and is used
\* unchanged for every row of that table; a later table in the same input
\* chooses its own delimiter from its own header, independent of the
\* delimiter of any earlier table, and a row value containing '|' in a
\* comma-delimited table is not split on '|'.
C22_DelimiterPerTable == C22_ChosenOnce /\ []C22_OwnDelimiter

\* C22's case: a table with a '|' header, then a table with a ',' header
\* whose row holds 'u|v': the second table is split on ',' only
C22_Witness ==
    /\ pc = "done"
    /\ Len(lines) = 6
    /\ HeaderDelimiter(lines[2]) = "|" /\ HeaderDelimiter(lines[5]) = ","
    /\ ret = PyDict(<< <<<<"a">>,
                 PyList(<<PyDict(<< <<<<"h">>, PyStr(<<"P">>)>>,
                                    <<<<"g">>, PyInt(2)>> >>)>>)>>,
                       <<<<"b">>,
                 PyList(<<PyDict(<< <<<<"h">>, PyStr(<<"u", "|", "v">>)>>,
                                    <<<<"g">>, PyStr(<<"w">>)>> >>)>>)>> >>)


----------------------------------------------------------------------------
(* Claims about the items of a scalar list *)

\* the sequence the claim expects for a list block: each item text coerced
\* by the scalar rule
CoercedListOf(ls, p, q) ==
    PyList([r \in 1..(q - p) |-> Coerce(Strip(Drop(LineContent(ls[p + r]), 2)))])

\* C23: each '- value' item of a scalar list is appended to the sequence as
\* the coerced scalar of the trimmed text after '- ', by the scalar rule of
\* 'key: value' lines: '- 10' appends the integer 10, and only other tokens
\* are appended as strings.  The block stands at the root, between
\* 'key: value' lines of other keys.
C23_ItemsCoerced ==
    pc = "done" =>
        \A p \in 1..Len(lines) : \A q \in p..Len(lines) :
            (/\ ListBlock(lines, p, q)
             /\ LineIndent(lines[p]) = 0
             /\ RootScalars(lines, 1, p - 1, KeyOf(lines[p]))
             /\ RootScalars(lines, q + 1, Len(lines), KeyOf(lines[p])))
            => /\ HasKey(ret.v, KeyOf(lines[p]))
               /\ DictGet(ret.v, KeyOf(lines[p])) = CoercedListOf(lines, p, q)


----------------------------------------------------------------------------
(* loads on '- ' items and the placeholders they convert *)

\* the longest input of item lines, in lines
MaxItemLines == 4

\* key lines at two depths, a key line with an empty key, '- ' items at two
\* depths, an item that reads as a float, 'key: value' lines at two depths
ItemLinePool ==
    {<<"a", ":">>,
     <<" ", " ", "n", ":">>,
     <<":">>,
     <<" ", " ", "-", " ", "r">>,
     <<" ", " ", " ", " ", "-", " ", "1", "0">>,
     <<" ", " ", "-", " ", "2", ".", "5">>,
     <<"b", ":", " ", "1">>,
     <<" ", " ", "c", ":", " ", "x">>}

ItemTexts ==
    {Join(ls, <<"\n">>) : ls \in UNION {[1..n -> ItemLinePool] : n \in 1..MaxItemLines}}

InitItems ==
    /\ text \in ItemTexts
    /\ lines = << >>
    /\ pos = 0
    /\ dec = InitDec
    /\ pc = "call"
    /\ ret = PyNone
    /\ data = EmptyDict
    /\ pr = InitPr
    /\ calls = NoCalls
    /\ tracker = NoTracker

SpecItems == InitItems /\ [][NextLoads]_vars

\* the ids of the containers an object of the heap points at
RefsOf(obj) ==
    IF obj.t = "dict"
    THEN {obj.v[i][2].v : i \in {j \in 1..Len(obj.v) : obj.v[j][2].t = "ref"}}
    ELSE {obj.v[i].v : i \in {j \in 1..Len(obj.v) : obj.v[j].t = "ref"}}

\* the ids reachable from the ids of s in at most n steps
RECURSIVE ReachableFrom(_, _, _)
ReachableFrom(heap, s, n) ==
    IF n = 0 THEN s
    ELSE ReachableFrom(heap, s \cup UNION {RefsOf(heap[i]) : i \in s}, n - 1)

\* the container id is part of the result
InResult(heap, id) == id \in ReachableFrom(heap, {1}, Len(heap))

\* the text of the item of a '- ' line
ItemText(l) == Strip(Drop(LineContent(l), 2))

\* the line the loop is about to process is a '- ' line handled by the
\* normal rules whose current container is an empty mapping with a parent
\* frame
ItemOnPlaceholder ==
    /\ NormalLine
    /\ IsItemLine(lines[pos])
    /\ LET kept == PopStack(dec.stack, LineIndent(lines[pos]))
       IN  /\ Len(kept) > 1
           /\ dec.heap[Top(kept)[1]] = EmptyDict

\* the effect the claim gives for such a line: the parent's entry for the
\* placeholder now holds a new sequence, key and position kept, the top
\* frame is that sequence at the same indent, the placeholder is out of the
\* result, and the sequence holds the item
Replaced ==
    LET kept   == PopStack(dec.stack, LineIndent(lines[pos]))
        old    == Top(kept)[1]
        parent == Below(kept)[1]
        new    == Top(dec'.stack)[1]
    IN  /\ pc' = "loop"
        /\ dec.heap[parent].t = "dict"
        /\ \E i \in 1..Len(dec.heap[parent].v) :
               /\ dec.heap[parent].v[i][2] = Ref(old)
               /\ dec'.heap[parent] =
                      PyDict([dec.heap[parent].v EXCEPT ![i] = <<@[1], Ref(new)>>])
        /\ new # old
        /\ dec'.stack = [kept EXCEPT ![Len(kept)] = <<new, Top(kept)[2]>>]
        /\ dec'.heap[new] = PyList(<<PyStr(ItemText(lines[pos]))>>)
        /\ ~InResult(dec'.heap, old)
        /\ InResult(dec'.heap, new)

\* a later '- ' line of the block: its current container is a sequence, the
\* item is appended to it, and it is the sequence the result holds
AppendedToResult ==
    LET kept == PopStack(dec.stack, LineIndent(lines[pos]))
        cur  == Top(kept)[1]
    IN  /\ pc' = "loop"
        /\ dec'.stack = kept
        /\ dec'.heap = [dec.heap EXCEPT ![cur] =
                            PyList(Append(@.v, PyStr(ItemText(lines[pos]))))]
        /\ InResult(dec'.heap, cur)

\* C24: when a '- ' line arrives while the current container is an empty
\* placeholder mapping with a parent frame, the placeholder is replaced in
\* the parent mapping, under the same key and at the same position in key
\* order, by a new sequence, and the top stack frame is updated to point at
\* that sequence with its indent unchanged; afterwards the placeholder is no
\* longer reachable from the result and every later '- ' line of the block
\* appends to the sequence that the result holds.
C24_PlaceholderReplaced ==
    [][/\ ItemOnPlaceholder => Replaced
       /\ (/\ NormalLine /\ IsItemLine(lines[pos])
           /\ dec.heap[CurrentContainer(dec.stack, LineIndent(lines[pos]))].t = "list")
          => AppendedToResult]_vars

\* the key under which the parent holds the placeholder
PlaceholderKey ==
    LET kept == PopStack(dec.stack, LineIndent(lines[pos]))
    IN  KeyPointingTo(dec.heap[Below(kept)[1]].v, Top(kept)[1])

\* the part of C24 the code keeps: the replacement is made when the key of
\* the placeholder is not the empty string, and later items are appended
ReplacedUnderNamedKey ==
    [][/\ (ItemOnPlaceholder /\ Truthy(PlaceholderKey)) => Replaced
       /\ (/\ NormalLine /\ IsItemLine(lines[pos])
           /\ dec.heap[CurrentContainer(dec.stack, LineIndent(lines[pos]))].t = "list")
          => AppendedToResult]_vars

\* a placeholder under the empty key is left a mapping: ':' then '- r'
EmptyKeyNotReplaced ==
    /\ pc = "done"
    /\ lines = <<<<":">>, <<" ", " ", "-", " ", "r">>>>
    /\ ret = PyDict(<< <<<< >>, EmptyDict>> >>)

\* a placeholder under a named key, second in its mapping, became a list
\* in place: b: 1, a:, '- r', '- 2.5'
NamedKeyReplaced ==
    /\ pc = "done"
    /\ Len(lines) = 4
    /\ ret = PyDict(<< <<<<"b">>, PyInt(1)>>,
                       <<<<"a">>, PyList(<<PyStr(<<"r">>), PyStr(<<"2", ".", "5">>)>>)>> >>)


----------------------------------------------------------------------------
(* Claims about the lines met in table mode *)

\* the record of line l as a row of the open table
OpenTableRow(l) ==
    RowRecord(dec.current_list_headers,
              StripAll(Split(LineContent(l), dec.current_list_delimiter)))

\* C25: while the decoder is in table mode, every non-blank line whose
\* indent is greater than the indent of the table's key line is consumed as
\* a data row and receives no further processing, whatever its content: the
\* row is appended and nothing else changes, so a line containing ':' opens
\* no key, a line starting with '- ' appends to no scalar list, and the
\* stack is left unchanged.
C25_RowConsumed ==
    [][(/\ TableOpen /\ pos <= Len(lines)
        /\ ~IsBlankLine(lines[pos])
        /\ LineIndent(lines[pos]) > LineIndent(lines[Owner]))
       => /\ pc' = "loop"
          /\ dec' = [dec EXCEPT !.current_list = Append(@, OpenTableRow(lines[pos]))]
          /\ dec'.stack = dec.stack /\ dec'.heap = dec.heap]_vars

\* C25's case: under the table of a the lines 'd: 4' and '- r' are rows:
\* no key d, no list, two records under a
C25_Witness ==
    /\ pc = "done"
    /\ Len(lines) = 4
    /\ IsColonLine(lines[3]) /\ IsItemLine(lines[4])
    /\ ret = PyDict(<< <<<<"a">>,
                 PyList(<<PyDict(<< <<<<"h">>, PyStr(<<"d", ":", " ", "4">>)>> >>),
                          PyDict(<< <<<<"h">>, PyStr(<<"-", " ", "r">>)>> >>)>>)>> >>)


----------------------------------------------------------------------------
(* Claims about the tables dumps writes *)

\* a non-empty sequence whose first element is a mapping
FirstIsMapping(v) == v.t = "list" /\ Len(v.v) > 0 /\ v.v[1].t = "dict"

\* the field of an element under a header key: its stringified value, or
\* the empty string when the element lacks the key
FieldOf(elem, h) ==
    IF elem.t = "dict" /\ HasKey(elem.v, h) THEN StrOf(DictGet(elem.v, h)) ELSE << >>

\* the lines the claim gives for a key whose value is such a sequence: the
\* key line, the header of the first element's keys, one line per element
ClaimedTable(key, v) ==
    LET headers == Keys(v.v[1].v)
    IN  <<key \o <<":">>, <<" ", " ">> \o Join(headers, <<",", " ">>)>>
        \o [r \in 1..Len(v.v) |->
               <<" ", " ">> \o Join([j \in 1..Len(headers) |-> FieldOf(v.v[r], headers[j])],
                                    <<",", " ">>)]

\* the text the claim gives for the mapping d: the lines of ClaimedTable for
\* the keys it speaks of, and for every other key what dumps writes for it
ClaimedText(d) ==
    Join([i \in 1..Len(d.v) |->
             IF FirstIsMapping(d.v[i][2])
             THEN Join(ClaimedTable(d.v[i][1], d.v[i][2]), <<"\n">>)
             ELSE Dumps(PyDict(<<d.v[i]>>), 0).out], <<"\n">>)

\* dumps has returned or raised
Dumped == pc # "dumps"

\* C26: for a non-empty sequence whose first element is a mapping, dumps
\* emits 'key:', then one header line made of the first element's keys
\* joined by ', ', then exactly one line per element holding, for each
\* header key in header order, the element's stringified value or the empty
\* string when the element lacks that key; keys that only later elements
\* have are not emitted, and the delimiter is always a comma.
C26_TableEmitted ==
    (Dumped /\ \E i \in 1..Len(data.v) : FirstIsMapping(data.v[i][2])) =>
        /\ ~DumpsRaised
        /\ text = ClaimedText(data)

\* every element of every sequence of the mapping that starts with a
\* mapping is a mapping
RECURSIVE OnlyMappingsInTables(_)
OnlyMappingsInTables(v) ==
    CASE v.t = "dict" -> \A i \in 1..Len(v.v) : OnlyMappingsInTables(v.v[i][2])
      [] v.t = "list" -> FirstIsMapping(v) => \A i \in 1..Len(v.v) : v.v[i].t = "dict"
      [] OTHER        -> TRUE

\* the part of C26 the code keeps: when the elements are all mappings
TableEmittedForMappings ==
    (Dumped /\ OnlyMappingsInTables(data)
            /\ \E i \in 1..Len(data.v) : FirstIsMapping(data.v[i][2])) =>
        /\ ~DumpsRaised
        /\ text = ClaimedText(data)

\* mappings with differing keys: the header is h, g; the second row has an
\* empty field for h
DiffKeysText ==
    /\ pc = "call"
    /\ text = <<"a", ":", "\n", " ", " ", "h", ",", " ", "g", "\n",
                " ", " ", "1", ",", " ", "x", "\n", " ", " ", ",", " ", "2">>


----------------------------------------------------------------------------
(* Claims about the shape of the stack *)

\* C27: in every state reached while loads processes its lines, the stack
\* is non-empty, its bottom frame is the root result mapping with indent -1
\* and is never popped, and the recorded indents of the frames are strictly
\* increasing from bottom to top.
C27_StackShape ==
    pc \in {"loop", "raised", "done"} =>
        /\ Len(dec.stack) >= 1
        /\ dec.stack[1] = <<1, -1>>
        /\ dec.heap[1].t = "dict"
        /\ \A i \in 1..(Len(dec.stack) - 1) : dec.stack[i][2] < dec.stack[i + 1][2]
        /\ pc = "done" => ret = Deref(dec.heap, Ref(1))

\* C27's case: a:, n: and a line of the root were read: two frames were
\* pushed above the root and both were popped, the root frame is left
C27_Witness ==
    /\ pc = "loop"
    /\ pos = 4
    /\ IsKeyLine(lines[1]) /\ IsKeyLine(lines[2]) /\ LineIndent(lines[2]) = 2
    /\ IsScalarLine(lines[3]) /\ LineIndent(lines[3]) = 0
    /\ Len(dec.heap) = 3
    /\ dec.stack = << <<1, -1>> >>

\* C27 with three frames: the indents are -1, 0, 2
C27_WitnessDeep ==
    /\ pc = "loop"
    /\ Len(dec.stack) = 3
    /\ dec.stack[2][2] = 0 /\ dec.stack[3][2] = 2


----------------------------------------------------------------------------
(* Claims about the state of table mode *)

\* in table mode the key is set, the top frame is an empty mapping, and the
\* frame below holds it under the key
TableModeShape ==
    TableOpen =>
        /\ Truthy(dec.current_list_key)
        /\ Len(dec.stack) >= 2
        /\ dec.heap[Top(dec.stack)[1]] = EmptyDict
        /\ LET holder == dec.heap[Below(dec.stack)[1]]
           IN  /\ holder.t = "dict"
               /\ HasKey(holder.v, dec.current_list_key.v)
               /\ DictGet(holder.v, dec.current_list_key.v) = Ref(Top(dec.stack)[1])

\* a sequence stored under a key of a mapping (the rows of a finished table,
\* or the empty sequence of 'key: []') is left as it is by every later step,
\* unless the line gives that key again in that mapping; and a table that
\* opens starts with no rows
FinishedTableKept ==
    [][pc = "loop" =>
          /\ \A id \in 1..Len(dec.heap) :
                 dec.heap[id].t = "dict" =>
                     \A i \in 1..Len(dec.heap[id].v) :
                         dec.heap[id].v[i][2].t = "list" =>
                             \/ /\ NormalLine /\ IsColonLine(lines[pos])
                                /\ KeyOf(lines[pos]) = dec.heap[id].v[i][1]
                                /\ id = CurrentContainer(dec.stack, LineIndent(lines[pos]))
                             \/ /\ dec'.heap[id].t = "dict"
                                /\ Len(dec'.heap[id].v) >= i
                                /\ dec'.heap[id].v[i] = dec.heap[id].v[i]
          /\ (~dec.in_list_mode /\ dec'.in_list_mode) => dec'.current_list = << >>
          /\ (~dec.in_list_mode /\ ~dec'.in_list_mode) =>
                 dec'.current_list = dec.current_list]_vars

\* C28: whenever the decoder is in table mode, the active table key is set,
\* the stack has at least two frames, the top frame's container is an empty
\* mapping, and that mapping is the value stored under the active table key
\* in the container of the frame directly below; when the decoder is not in
\* table mode the rows accumulator of a finished table is never appended to
\* again, so no row of one table appears in another table.
C28_TableMode == []TableModeShape /\ FinishedTableKept

\* C28's case: the table under a, n is open and has one row; n is in the
\* mapping of a, the frame below the placeholder
C28_Witness ==
    /\ TableOpen
    /\ Len(dec.stack) = 3
    /\ dec.current_list_key = Some(<<"n">>)
    /\ Len(dec.current_list) = 1
    /\ dec.heap[2] = PyDict(<< <<<<"n">>, Ref(3)>> >>)
    /\ dec.heap[3] = EmptyDict

\* C28 after a table: the rows of a are stored, and the two lines read
\* since then left them as they were
C28_WitnessFinished ==
    /\ pc = "loop"
    /\ ~dec.in_list_mode
    /\ pos = 6
    /\ HasKey(dec.heap[1].v, <<"a">>)
    /\ DictGet(dec.heap[1].v, <<"a">>) =
           PyList(<<PyDict(<< <<<<"h">>, PyStr(<<"P">>)>>, <<<<"g">>, PyInt(2)>> >>)>>)
    /\ Len(dec.heap[1].v) = 3


----------------------------------------------------------------------------
(* dumps with an indent, followed by loads *)

\* the largest indent given to dumps
MaxIndent == 2

InitIndent ==
    /\ data \in Mappings
    /\ text = << >>
    /\ lines = << >>
    /\ pos = 0
    /\ dec = InitDec
    /\ pc = "dumps"
    /\ ret = PyNone
    /\ pr = InitPr
    /\ calls = NoCalls
    /\ tracker = NoTracker

\* text = dumps(data, indent=k): the whole call
DumpsIndented ==
    /\ pc = "dumps"
    /\ \E k \in 0..MaxIndent :
           LET r == Dumps(data, k)
           IN  /\ text' = r.out
               /\ pc' = IF r.raised # "none" THEN "raised" ELSE "call"
    /\ UNCHANGED <<lines, pos, dec, ret, data, pr, calls, tracker>>

NextIndent == DumpsIndented \/ LoadsStart \/ LoadsLine \/ LoadsReturn

SpecIndent == InitIndent /\ [][NextIndent]_vars

\* every line of txt that is not empty with k more spaces in front
PrefixLines(txt, k) ==
    LET ls == Split(txt, "\n")
    IN  Join([i \in 1..Len(ls) |-> IF ls[i] = << >> THEN << >> ELSE Spaces(k) \o ls[i]],
             <<"\n">>)

\* C29: decoding is invariant under uniform indentation: the indent of every
\* non-blank line, the first one included, is its own leading-whitespace
\* count, so prefixing every line with the same k spaces gives the same
\* loads result; in particular loads(dumps(m, indent=k)) ==
\* loads(dumps(m, 0)) for every mapping m, including one whose first key
\* opens a nested mapping followed by a sibling key.
C29_UniformIndent ==
    pc \in {"raised", "done"} =>
        LET plain == Dumps(data, 0).out
            base  == Loads(plain)
        IN  /\ \E k \in 0..MaxIndent : text = PrefixLines(plain, k)
            /\ IF base.raised = "none" THEN pc = "done" /\ ret = base.val
               ELSE pc = "raised"

\* the indent=2 text of {a: {c: 1}, b: 7} decodes with b inside a: the first
\* line lost its indent to text.strip()
IndentedSiblingNested ==
    /\ pc = "done"
    /\ data = PyDict(<< <<<<"a">>, PyDict(<< <<<<"c">>, PyInt(1)>> >>)>>,
                        <<<<"b">>, PyInt(7)>> >>)
    /\ LeadingSpace(text) = 2
    /\ ret = PyDict(<< <<<<"a">>, PyDict(<< <<<<"c">>, PyInt(1)>>,
                                           <<<<"b">>, PyInt(7)>> >>)>> >>)

\* what uniform indentation does keep: the text is the plain one with k
\* spaces before every line, and a mapping of one scalar decodes the same
IndentKeptForOneScalar ==
    pc \in {"raised", "done"} =>
        /\ \E k \in 0..MaxIndent : text = PrefixLines(Dumps(data, 0).out, k)
        /\ (Len(data.v) = 1 /\ data.v[1][2].t \in {"int", "bool", "float"}) =>
               (pc = "done" /\ ret = Loads(Dumps(data, 0).out).val)


----------------------------------------------------------------------------
(* TokenTracker of backend/src/utils/token_tracker.py *)
(*                                                                         *)
(* One instance (the module-level token_tracker) is used by every thread.  *)
(* A thread runs track_usage once, or get_stats several times.  Inside the *)
(* lock a statement self.x += v is a load of self.x and a store, two steps *)
(* of the thread; get_stats loads the five fields one after the other.     *)
(* cost_estimate is counted in units of 10^-7 (p/1000*0.0005 is 5 units    *)
(* per prompt token, c/1000*0.0015 is 15 per completion token); the error  *)
(* of float arithmetic is not modelled.                                    *)

\* the number of threads that call track_usage
MaxThreads == 2

\* the number of get_stats calls of the reading thread
MaxReads == 2

\* the usage_data arguments: all three counts, counts with a key missing,
\* a count of zero, and the empty mapping
UsagePool ==
    {PyDict(<< <<"prompt_tokens", PyInt(1)>>, <<"completion_tokens", PyInt(2)>>,
               <<"total_tokens", PyInt(3)>> >>),
     PyDict(<< <<"prompt_tokens", PyInt(10)>>, <<"total_tokens", PyInt(10)>> >>),
     PyDict(<< <<"completion_tokens", PyInt(0)>> >>),
     EmptyDict}

\* usage_data.get(key, 0)
UsageGet(usage, key) == IF HasKey(usage.v, key) THEN DictGet(usage.v, key).v ELSE 0

\* reset (lines 17-22): the counters of a new instance
ResetFields ==
    [total_tokens |-> 0, prompt_tokens |-> 0, completion_tokens |-> 0,
     requests |-> 0, cost_estimate |-> 0]

\* the fields in the order lines 38-45 update them
UpdateOrder ==
    <<"prompt_tokens", "completion_tokens", "total_tokens", "requests", "cost_estimate">>

\* the fields in the order lines 50-54 read them
StatsOrder ==
    <<"total_tokens", "prompt_tokens", "completion_tokens", "requests", "cost_estimate">>

\* line 44, with the rates of lines 24-27, in units of 10^-7
Cost(p_tokens, c_tokens) == 5 * p_tokens + 15 * c_tokens

\* round(self.cost_estimate, 6), in units of 10^-6
Round6(units) == (units + 5) \div 10

\* the id of the thread that calls get_stats
Reader == MaxThreads + 1

TrackThread(usage) ==
    [pc |-> "tu_call", usage |-> usage, p_tokens |-> 0, c_tokens |-> 0, total |-> 0,
     at |-> 0, tmp |-> 0, left |-> 0, snap |-> ResetFields, after |-> FALSE]

StatsThread ==
    [pc |-> "gs_call", usage |-> EmptyDict, p_tokens |-> 0, c_tokens |-> 0, total |-> 0,
     at |-> 0, tmp |-> 0, left |-> MaxReads, snap |-> ResetFields, after |-> FALSE]

InitTracker ==
    /\ tracker \in {[fields   |-> ResetFields,
                     lock     |-> 0,
                     th       |-> [i \in 1..Reader |->
                                      IF i = Reader THEN StatsThread
                                      ELSE TrackThread(u[i])],
                     returned |-> << >>] : u \in [1..MaxThreads -> UsagePool]}
    /\ text = << >>
    /\ lines = << >>
    /\ pos = 0
    /\ dec = InitDec
    /\ pc = "threads"
    /\ ret = PyNone
    /\ data = EmptyDict
    /\ pr = InitPr
    /\ calls = NoCalls

\* a mutant of Acquirable: the lock is taken whether it is held or not
AcquirableAlways(lock) == TRUE

\* with self._lock: a thread enters when no thread holds the lock
Acquirable(lock) == lock = 0

\* what line 38-45 add to a field
Delta(t, field) ==
    CASE field = "prompt_tokens"     -> t.p_tokens
      [] field = "completion_tokens" -> t.c_tokens
      [] field = "total_tokens"      -> t.total
      [] field = "requests"          -> 1
      [] field = "cost_estimate"     -> Cost(t.p_tokens, t.c_tokens)

\* lines 30-35: return on empty usage data, else read the three counts
TrackCall(i) ==
    /\ tracker.th[i].pc = "tu_call"
    /\ LET u == tracker.th[i].usage
       IN  tracker' =
               IF u = EmptyDict
               THEN [tracker EXCEPT !.th[i].pc = "done"]
               ELSE [tracker EXCEPT
                        !.th[i].p_tokens = UsageGet(u, "prompt_tokens"),
                        !.th[i].c_tokens = UsageGet(u, "completion_tokens"),
                        !.th[i].total = UsageGet(u, "total_tokens"),
                        !.th[i].pc = "tu_lock"]
    /\ UNCHANGED <<text, lines, pos, dec, pc, ret, data, pr, calls>>

\* line 37: enter the lock
TrackLock(i) ==
    /\ tracker.th[i].pc = "tu_lock"
    /\ Acquirable(tracker.lock)
    /\ tracker' = [tracker EXCEPT !.lock = i, !.th[i].pc = "tu_load", !.th[i].at = 1]
    /\ UNCHANGED <<text, lines, pos, dec, pc, ret, data, pr, calls>>

\* lines 38-45: the load of self.x of a statement self.x += v
TrackLoad(i) ==
    /\ tracker.th[i].pc = "tu_load"
    /\ tracker' = [tracker EXCEPT
                      !.th[i].tmp = tracker.fields[UpdateOrder[tracker.th[i].at]],
                      !.th[i].pc = "tu_store"]
    /\ UNCHANGED <<text, lines, pos, dec, pc, ret, data, pr, calls>>

\* lines 38-45: the store of a statement self.x += v
TrackStore(i) ==
    /\ tracker.th[i].pc = "tu_store"
    /\ LET t     == tracker.th[i]
           field == UpdateOrder[t.at]
       IN  tracker' = [tracker EXCEPT
                          !.fields[field] = t.tmp + Delta(t, field),
                          !.th[i].at = IF t.at = Len(UpdateOrder) THEN 0 ELSE t.at + 1,
                          !.th[i].pc = IF t.at = Len(UpdateOrder) THEN "tu_unlock"
                                       ELSE "tu_load"]
    /\ UNCHANGED <<text, lines, pos, dec, pc, ret, data, pr, calls>>

\* the end of the with block of line 37: leave the lock and return
TrackUnlock(i) ==
    /\ tracker.th[i].pc = "tu_unlock"
    /\ tracker' = [tracker EXCEPT !.lock = 0, !.th[i].pc = "done"]
    /\ UNCHANGED <<text, lines, pos, dec, pc, ret, data, pr, calls>>

\* every track_usage call has returned
AllTracked == \A i \in 1..MaxThreads : tracker.th[i].pc = "done"

\* line 48: get_stats enters the lock
StatsLock(i) ==
    /\ tracker.th[i].pc = "gs_call"
    /\ tracker.th[i].left > 0
    /\ Acquirable(tracker.lock)
    /\ tracker' = [tracker EXCEPT !.lock = i, !.th[i].pc = "gs_read", !.th[i].at = 1,
                                  !.th[i].snap = ResetFields,
                                  !.th[i].after = AllTracked]
    /\ UNCHANGED <<text, lines, pos, dec, pc, ret, data, pr, calls>>

\* lines 49-55: the load of one field for the dictionary
StatsRead(i) ==
    /\ tracker.th[i].pc = "gs_read"
    /\ LET t     == tracker.th[i]
           field == StatsOrder[t.at]
           value == IF field = "cost_estimate" THEN Round6(tracker.fields[field])
                    ELSE tracker.fields[field]
       IN  tracker' = [tracker EXCEPT
                          !.th[i].snap[field] = value,
                          !.th[i].at = IF t.at = Len(StatsOrder) THEN 0 ELSE t.at + 1,
                          !.th[i].pc = IF t.at = Len(StatsOrder) THEN "gs_return"
                                       ELSE "gs_read"]
    /\ UNCHANGED <<text, lines, pos, dec, pc, ret, data, pr, calls>>

\* the end of the with block of line 48: leave the lock, return the dictionary
StatsReturn(i) ==
    /\ tracker.th[i].pc = "gs_return"
    /\ tracker' = [tracker EXCEPT
                      !.lock = 0,
                      !.returned = Append(@, [stats |-> tracker.th[i].snap,
                                              after |-> tracker.th[i].after]),
                      !.th[i].left = @ - 1,
                      !.th[i].pc = IF tracker.th[i].left > 1 THEN "gs_call" ELSE "done"]
    /\ UNCHANGED <<text, lines, pos, dec, pc, ret, data, pr, calls>>

NextTracker ==
    \/ \E i \in 1..MaxThreads :
           TrackCall(i) \/ TrackLock(i) \/ TrackLoad(i) \/ TrackStore(i) \/ TrackUnlock(i)
    \/ StatsLock(Reader) \/ StatsRead(Reader) \/ StatsReturn(Reader)

SpecTracker == InitTracker /\ [][NextTracker]_vars

\* the track_usage calls with non-empty usage data
Submitted == {i \in 1..MaxThreads : tracker.th[i].usage # EmptyDict}

RECURSIVE SumOf(_, _)
SumOf(S, key) ==
    IF S = {} THEN 0
    ELSE LET i == CHOOSE j \in S : TRUE
         IN  UsageGet(tracker.th[i].usage, key) + SumOf(S \ {i}, key)

\* the counters after exactly the calls of S, each applied whole
TotalsOf(S) ==
    [total_tokens      |-> SumOf(S, "total_tokens"),
     prompt_tokens     |-> SumOf(S, "prompt_tokens"),
     completion_tokens |-> SumOf(S, "completion_tokens"),
     requests          |-> Cardinality(S)]

Counters(f) ==
    [total_tokens      |-> f.total_tokens,
     prompt_tokens     |-> f.prompt_tokens,
     completion_tokens |-> f.completion_tokens,
     requests          |-> f.requests]

\* C30: TokenTracker loses no update under concurrency: after any
\* interleaving of N track_usage calls with non-empty usage data (no reset
\* in between) the counters, and any get_stats called from then on, give
\* requests = N and the sums of the submitted values; and every get_stats
\* snapshot taken during the interleaving equals the totals of some subset
\* of whole calls, never a partially applied call.
C30_NoLostUpdate ==
    /\ AllTracked => Counters(tracker.fields) = TotalsOf(Submitted)
    /\ \A k \in 1..Len(tracker.returned) :
           LET r == tracker.returned[k]
           IN  /\ \E S \in SUBSET Submitted : Counters(r.stats) = TotalsOf(S)
               /\ r.after => Counters(r.stats) = TotalsOf(Submitted)

\* C30's case: a get_stats call returned the totals of the first call alone,
\* taken while the second call was waiting for the lock or inside it, and
\* both calls have returned since
C30_Witness ==
    /\ pc = "threads"
    /\ AllTracked
    /\ Submitted = {1, 2}
    /\ tracker.fields.requests = 2
    /\ tracker.fields.prompt_tokens = 11
    /\ Len(tracker.returned) >= 1
    /\ tracker.returned[1].stats.requests = 1
    /\ tracker.returned[1].stats.prompt_tokens \in {1, 10}
============================================================================
